---------------------------- MODULE Spec2Model ----------------------------
(***************************************************************************)
(* Conversation state machine of the salon booking bot.                    *)
(*                                                                         *)
(* The session store is the set of module-level dictionaries of            *)
(* bot/handlers/conversation_states.py.  Three front ends write it:        *)
(*   - WorkingBookingBot + ConversationHandler   (working_booking_bot.py)  *)
(*   - WhatsAppConversationHandler                                         *)
(*   - MessageHandler (+ CommandHandler)                                   *)
(*                                                                         *)
(* Representation                                                          *)
(*   - a text is a TLA+ string; substring tests, lower(), strip() and the  *)
(*     regular expressions are computed character by character;           *)
(*   - a member of the Enum conversation_states.ConversationState is the   *)
(*     upper-case member name ("IDLE"); a plain Python str state (the      *)
(*     constants of message_handler.ConversationState) is the lower-case   *)
(*     value ("idle").  As in Python, an Enum member never equals a str.   *)
(*   - a dict is a function from its possible keys to values, Absent       *)
(*     standing for a missing key and NoneVal for the value None.          *)
(***************************************************************************)
EXTENDS Integers, Sequences, FiniteSets, TLC

VARIABLES
    user_states,            \* conversation_states.user_states
    appointment_data,       \* conversation_states.appointment_data
    conversation_context,   \* conversation_states.conversation_context
    conversation_history,   \* conversation_states.conversation_history
    bot_user_states,        \* WorkingBookingBot.user_states (a dict of its own)
    now,                    \* wall clock, minutes since 2026-01-01 00:00
    script,                 \* position reached in the end-to-end scenario
    last,                   \* observation of the last handled update
    fallback_appointment_data,  \* appointment_data of _create_fallback_states:
                            \* <<>> for a chat without entry, else <<its dict>>
    call,                   \* the last call of a store function and its result
    appended,               \* what was appended to the history since its clear
    threads,                \* messages of one chat being handled concurrently
    telegram,               \* the Bot API: unconfirmed updates, next update id
    poller,                 \* locals of run_working_booking_bot and its log
    runner                  \* position of railway_bot.main in its retry loop

vars == <<user_states, appointment_data, conversation_context,
          conversation_history, bot_user_states, now, script, last,
          fallback_appointment_data, call, appended, threads,
          telegram, poller, runner>>

\* what the handlers of whole updates leave alone
aux == <<fallback_appointment_data, call, appended, threads,
         telegram, poller, runner>>

-----------------------------------------------------------------------------
(* Bounds of the model *)

\* entries appended to one history between two clears
MaxAppended == 12

MaxNow == 64          \* the clock stops advancing after this many minutes

Chats == {"c1", "c2"}

Absent == "<absent>"
NoneVal == "<None>"

-----------------------------------------------------------------------------
(* Strings *)

DigitChars == {"0", "1", "2", "3", "4", "5", "6", "7", "8", "9"}

Upper == <<"A","B","C","D","E","F","G","H","I","J","K","L","M",
           "N","O","P","Q","R","S","T","U","V","W","X","Y","Z">>
LowerCase == <<"a","b","c","d","e","f","g","h","i","j","k","l","m",
               "n","o","p","q","r","s","t","u","v","w","x","y","z">>

UpperChars == {Upper[i] : i \in 1..26}

LowerOf == [ch \in UpperChars |-> LowerCase[CHOOSE i \in 1..26 : Upper[i] = ch]]

CharAt(t, i) == SubSeq(t, i, i)

LowerChar(ch) == IF ch \in UpperChars THEN LowerOf[ch] ELSE ch

\* str.lower(), character by character
RECURSIVE LowerDef(_)
LowerDef(t) ==
    IF Len(t) = 0 THEN ""
    ELSE LowerChar(CharAt(t, 1)) \o LowerDef(SubSeq(t, 2, Len(t)))

RECURSIVE LStrip(_)
LStrip(t) ==
    IF Len(t) > 0 /\ CharAt(t, 1) = " " THEN LStrip(SubSeq(t, 2, Len(t))) ELSE t

RECURSIVE RStrip(_)
RStrip(t) ==
    IF Len(t) > 0 /\ CharAt(t, Len(t)) = " "
    THEN RStrip(SubSeq(t, 1, Len(t) - 1)) ELSE t

\* str.strip()
StripDef(t) == RStrip(LStrip(t))

\* Python's  `w in t`  on strings
ContainsDef(t, w) ==
    \E i \in 1..(Len(t) - Len(w) + 1) : SubSeq(t, i, i + Len(w) - 1) = w

\* re.sub(r'\D', '', t)
RECURSIVE StripNonDigitsDef(_)
StripNonDigitsDef(t) ==
    IF Len(t) = 0 THEN ""
    ELSE (IF CharAt(t, 1) \in DigitChars THEN CharAt(t, 1) ELSE "")
         \o StripNonDigitsDef(SubSeq(t, 2, Len(t)))

\* The texts the specifications feed to the handlers.  The string functions
\* are tabulated once over them (and over what strip() and lower() make of
\* them); any other argument is computed directly.
AllTexts ==
    {"hi", "haircut", "tomorrow", "2pm", "Jane", "0712345678", "yes",
     "no", "hapana", "cancel", "12345", "+254 712 345 678", "/clear",
     "n", "change", "y", "ndio", "NDIO", "confirm", "ok", "No",
     "services", "book", "language", "sheng", "/book", "book appointment",
     "I want to book a haircut tomorrow at 2pm", "book haircut tomorrow 2 pm",
     "book a haircut", "hi book", "nipo prices", "where to book",
     "swenglish", "english", "English please", "book haircut 2pm",
     "today", "monday", "10am", "12pm", "3pm", "morning", "afternoon",
     "evening"}

Tabulated ==
    LET stripped == AllTexts \cup {StripDef(t) : t \in AllTexts}
    IN stripped \cup {LowerDef(t) : t \in stripped}

LowerTable == [t \in Tabulated |-> LowerDef(t)]
StripTable == [t \in Tabulated |-> StripDef(t)]
DigitsTable == [t \in Tabulated |-> StripNonDigitsDef(t)]
SubstringTable ==
    [t \in Tabulated |->
        {SubSeq(t, i, j) : i \in 1..Len(t), j \in 1..Len(t)} \ {""}]

Lower(t) == IF t \in Tabulated THEN LowerTable[t] ELSE LowerDef(t)
Strip(t) == IF t \in Tabulated THEN StripTable[t] ELSE StripDef(t)
StripNonDigits(t) ==
    IF t \in Tabulated THEN DigitsTable[t] ELSE StripNonDigitsDef(t)
Contains(t, w) ==
    IF t \in Tabulated /\ w # "" THEN w \in SubstringTable[t] ELSE ContainsDef(t, w)

\* any(word in t for word in words)
AnyIn(t, words) == \E w \in words : Contains(t, w)

StartsWith(t, p) == Len(t) >= Len(p) /\ SubSeq(t, 1, Len(p)) = p

\* t.replace(' ', '')
RECURSIVE RemoveSpaces(_)
RemoveSpaces(t) ==
    IF Len(t) = 0 THEN ""
    ELSE (IF CharAt(t, 1) = " " THEN "" ELSE CharAt(t, 1))
         \o RemoveSpaces(SubSeq(t, 2, Len(t)))

AllDigits(t) == \A i \in 1..Len(t) : CharAt(t, i) \in DigitChars

DigitStr == <<"0", "1", "2", "3", "4", "5", "6", "7", "8", "9">>
TwoDigits(n) == DigitStr[(n \div 10) + 1] \o DigitStr[(n % 10) + 1]

-----------------------------------------------------------------------------
(* conversation_states.py : the session store *)

\* members of the Enum ConversationState
ConversationState ==
    {"IDLE", "APPOINTMENT_IN_PROGRESS", "AWAITING_SERVICE_SELECTION",
     "AWAITING_DATE", "AWAITING_TIME", "AWAITING_SERVICE", "AWAITING_NAME",
     "AWAITING_PHONE", "AWAITING_CONFIRMATION", "AWAITING_PAYMENT",
     "PAYMENT_COMPLETED", "CHOOSING_LANGUAGE", "VIEWING_SERVICES"}

\* member.value
ConversationStateValue ==
    [IDLE |-> "idle", APPOINTMENT_IN_PROGRESS |-> "appointment_in_progress",
     AWAITING_SERVICE_SELECTION |-> "awaiting_service_selection",
     AWAITING_DATE |-> "awaiting_date", AWAITING_TIME |-> "awaiting_time",
     AWAITING_SERVICE |-> "awaiting_service", AWAITING_NAME |-> "awaiting_name",
     AWAITING_PHONE |-> "awaiting_phone",
     AWAITING_CONFIRMATION |-> "awaiting_confirmation",
     AWAITING_PAYMENT |-> "awaiting_payment",
     PAYMENT_COMPLETED |-> "payment_completed",
     CHOOSING_LANGUAGE |-> "choosing_language",
     VIEWING_SERVICES |-> "viewing_services"]

EnumValue(m) == ConversationStateValue[m]

DraftKeys ==
    {"service", "date", "time", "customer_name", "customer_phone",
     "time_info", "service_intent", "step", "price", "preferred_time",
     "payment_data"}

EmptyDraft == [k \in DraftKeys |-> Absent]

NoTime == -1

EmptyCtx ==
    [last_activity |-> NoTime, last_topic |-> Absent, language |-> Absent,
     selected_service |-> Absent, current_state |-> Absent]

\* The effect of a handler on the session of one chat: the store entries of
\* that chat, what was sent to the user (out), the handlers entered (path),
\* the pending exception (exc), the phone number handed to the payment
\* adapter (stk) and the outcome of save_appointment (saved).
Eff(c) ==
    [st |-> user_states[c], ad |-> appointment_data[c],
     cc |-> conversation_context[c], hist |-> conversation_history[c],
     bus |-> bot_user_states[c],
     out |-> <<>>, path |-> <<>>, exc |-> "", stk |-> "", saved |-> ""]

Raise(e, x) == [e EXCEPT !.exc = x]
Caught(e) == [e EXCEPT !.exc = ""]
Send(e, kind) == [e EXCEPT !.out = Append(@, kind)]
Mark(e, name) == [e EXCEPT !.path = Append(@, name)]

\* sequencing: the rest of a function body runs only when no exception is pending
Then(e, F(_)) == IF e.exc # "" THEN e ELSE F(e)

get_user_state(e) == IF e.st = Absent THEN "IDLE" ELSE e.st

\* dict.update(): keys of the argument overwrite, other keys are kept
DictUpdate(old, new) ==
    [k \in DOMAIN old |-> IF new[k] # Absent THEN new[k] ELSE old[k]]

set_conversation_context(e, context) ==
    [e EXCEPT !.cc =
        [last_activity |-> IF context.last_activity # NoTime
                           THEN context.last_activity ELSE e.cc.last_activity,
         last_topic |-> IF context.last_topic # Absent
                        THEN context.last_topic ELSE e.cc.last_topic,
         language |-> IF context.language # Absent
                      THEN context.language ELSE e.cc.language,
         selected_service |-> IF context.selected_service # Absent
                              THEN context.selected_service
                              ELSE e.cc.selected_service,
         current_state |-> IF context.current_state # Absent
                           THEN context.current_state ELSE e.cc.current_state]]

\* user_states[chat_id] = state is executed before state.value is read, so a
\* str state is stored and then AttributeError is raised.
\* (ctx['last_state_change'], a timestamp nothing reads, is not modelled.)
StrHasNoValue == "AttributeError: 'str' object has no attribute 'value'"

set_user_state(e, state) ==
    LET e1 == [e EXCEPT !.st = state] IN
    IF state \in ConversationState
    THEN set_conversation_context(e1,
             [e1.cc EXCEPT !.current_state = EnumValue(state)])
    ELSE Raise(e1, StrHasNoValue)

clear_user_state(e) ==
    [e EXCEPT !.st = Absent, !.ad = EmptyDraft, !.cc = EmptyCtx, !.hist = <<>>]

get_appointment_data(e) == e.ad

\* (ctx['last_appointment_update'], a timestamp nothing reads, is not modelled.)
set_appointment_data(e, data) == [e EXCEPT !.ad = DictUpdate(e.ad, data)]

\* The context keys are popped from a copy and the copy is written back with
\* dict.update(), which removes nothing from the stored context.
clear_appointment_data(e) ==
    LET e1 == [e EXCEPT !.ad = EmptyDraft]
        ctx == [e1.cc EXCEPT !.last_topic = Absent]
    IN set_conversation_context(e1, ctx)

\* an empty payment mapping; a payment mapping is written as its repr
EmptyPayment == "{}"

\* data.get('payment_data', {})
get_payment_data(e) ==
    LET data == get_appointment_data(e) IN
    IF data["payment_data"] = Absent THEN EmptyPayment ELSE data["payment_data"]

set_payment_data(e, payment_data) ==
    LET appointment == [get_appointment_data(e) EXCEPT
                            !["payment_data"] = payment_data]
    IN set_appointment_data(e, appointment)

\* the key is deleted from the copy, and the copy is merged into the store
clear_payment_data(e) ==
    LET appointment == [get_appointment_data(e) EXCEPT !["payment_data"] = Absent]
    IN set_appointment_data(e, appointment)

is_user_viewing_services(e) ==
    e.cc.last_topic = "services" \/ get_user_state(e) = "VIEWING_SERVICES"

HistoryLimit == 10

\* add_to_conversation_history that keeps the first ten entries
add_to_conversation_history_KeepsOldest(e, rec, role, message) ==
    IF ~rec THEN e
    ELSE LET h == Append(e.hist, [role |-> role, message |-> message]) IN
         [e EXCEPT !.hist = IF Len(h) > HistoryLimit
                            THEN SubSeq(h, 1, HistoryLimit)
                            ELSE h]

add_to_conversation_history(e, rec, role, message) ==
    IF ~rec THEN e
    ELSE LET h == Append(e.hist, [role |-> role, message |-> message]) IN
         [e EXCEPT !.hist = IF Len(h) > HistoryLimit
                            THEN SubSeq(h, Len(h) - HistoryLimit + 1, Len(h))
                            ELSE h]

update_last_activity(e, t) ==
    set_conversation_context(e, [e.cc EXCEPT !.last_activity = t])

TimeoutMinutes == 30

\* reset_to_idle_after_timeout: defined by the store, called by no handler
reset_to_idle_after_timeout(e, t) ==
    IF e.cc.last_activity # NoTime /\ t - e.cc.last_activity > TimeoutMinutes
    THEN clear_user_state(e)
    ELSE e

set_user_viewing_services(e, viewing) ==
    LET e1 == IF viewing THEN set_user_state(e, "VIEWING_SERVICES") ELSE e IN
    Then(e1, LAMBDA x :
        set_conversation_context(x, [EmptyCtx EXCEPT !.last_topic = "services"]))

\* (ctx['last_service_selection'], a timestamp nothing reads, is not modelled.)
track_service_selection(e, service) ==
    set_conversation_context(e, [e.cc EXCEPT !.selected_service = service])

get_user_language(e) ==
    IF e.cc.language = Absent THEN "english" ELSE e.cc.language

set_user_language(e, language) ==
    set_conversation_context(e, [e.cc EXCEPT !.language = language])

-----------------------------------------------------------------------------
(* Wall clock and dates *)

MinutesPerDay == 1440

Today(t) == t \div MinutesPerDay

\* strftime('%Y-%m-%d') of the day d days after 2026-01-01 (January only)
IsoDate(d) == "2026-01-" \o TwoDigits(d + 1)

-----------------------------------------------------------------------------
(* working_booking_bot.py : the methods ConversationHandler calls on its bot *)

WorkingBookingBotMethods ==
    {"send_message", "send_greeting", "send_services_list", "ask_for_service",
     "ask_for_service_with_time", "ask_for_date", "ask_for_time",
     "ask_for_name", "ask_for_name_with_time", "ask_for_phone",
     "ask_for_confirmation", "save_appointment", "send_payment_options",
     "send_welcome_message", "show_help", "show_prices", "check_mpesa_status",
     "start_mpesa_checkout", "show_mpesa_info", "show_manual_mpesa",
     "confirm_cash_payment", "extract_service"}

\* self.bot.<method>(chat_id, ...): the attribute lookup fails for a method
\* the bot class does not define; the defined ones send one message
BotCall(e, method) ==
    IF method \in WorkingBookingBotMethods
    THEN Send(e, method)
    ELSE Raise(e, "AttributeError: no such method")

\* WorkingBookingBot.save_appointment: Appointment.objects.create inside
\* try/except; dbok is the outcome of the database write
save_appointment(e, dbok) ==
    [e EXCEPT !.saved = IF dbok THEN "ok" ELSE "failed"]

-----------------------------------------------------------------------------
(* conversation_handler.py : ConversationHandler *)

CH_is_appointment_with_time(text) ==
    LET text_lower == Lower(text)
        has_time == AnyIn(text_lower, {"tomorrow", "today", "morning",
                                       "afternoon", "evening", "am", "pm"})
        has_appointment == AnyIn(text_lower, {"book", "appointment", "schedule"})
    IN has_time /\ has_appointment

CH_is_service_selection(text) ==
    AnyIn(text, {"hair", "haircut", "styling", "manicure", "pedicure",
                 "facial", "makeup", "coloring", "nails"})

CH_extract_service(text) ==
    LET text_lower == Lower(text) IN
    IF Contains(text_lower, "hair") \/ Contains(text_lower, "haircut")
    THEN "Haircut & Styling"
    ELSE IF Contains(text_lower, "manicure") \/ Contains(text_lower, "pedicure")
            \/ Contains(text_lower, "nails")
    THEN "Manicure/Pedicure"
    ELSE IF Contains(text_lower, "facial") THEN "Facial Treatment"
    ELSE IF Contains(text_lower, "makeup") THEN "Makeup Services"
    ELSE IF Contains(text_lower, "coloring") THEN "Hair Coloring"
    ELSE NoneVal

CH_extract_time_info(text) ==
    LET text_lower == Lower(text) IN
    IF Contains(text_lower, "tomorrow") /\ Contains(text_lower, "2 pm")
    THEN "tomorrow at 2:00 PM"
    ELSE IF Contains(text_lower, "tomorrow") THEN "tomorrow"
    ELSE IF Contains(text_lower, "today") THEN "today"
    ELSE IF Contains(text_lower, "2 pm") THEN "2:00 PM"
    ELSE "soon"

CH_parse_date(text, t) ==
    LET text_lower == Lower(text) IN
    IF Contains(text_lower, "tomorrow") THEN IsoDate(Today(t) + 1)
    ELSE IF Contains(text_lower, "today") THEN IsoDate(Today(t))
    ELSE NoneVal

CH_parse_time(text) ==
    LET text_lower == Lower(text) IN
    IF Contains(text_lower, "2 pm") \/ Contains(text_lower, "2pm") THEN "14:00"
    ELSE IF Contains(text_lower, "10 am") THEN "10:00"
    ELSE IF Contains(text_lower, "morning") THEN "09:00"
    ELSE IF Contains(text_lower, "afternoon") THEN "14:00"
    ELSE IF Contains(text_lower, "evening") THEN "17:00"
    ELSE NoneVal

\* re.match(r'^(\+?254|0)[17]\d{8}$', re.sub(r'\D', '', text))
CH_is_valid_phone(text) ==
    LET cleaned == StripNonDigits(text) IN
    \/ Len(cleaned) = 12 /\ StartsWith(cleaned, "254")
                         /\ CharAt(cleaned, 4) \in {"1", "7"}
    \/ Len(cleaned) = 10 /\ StartsWith(cleaned, "0")
                         /\ CharAt(cleaned, 2) \in {"1", "7"}

CH_start_appointment_flow(e) ==
    Then(set_user_state(e, "AWAITING_SERVICE"),
         LAMBDA x : BotCall(x, "ask_for_service"))

CH_start_appointment_for_service(e, service) ==
    LET appointment == [get_appointment_data(e) EXCEPT !["service"] = service]
        e1 == set_appointment_data(e, appointment)
    IN Then(set_user_state(e1, "AWAITING_DATE"),
            LAMBDA x : BotCall(x, "ask_for_date"))

CH_start_appointment_with_time(e, text, t) ==
    LET text_lower == Lower(text)
        service == CH_extract_service(text_lower)
        time_info == CH_extract_time_info(text_lower)
        appointment == get_appointment_data(e)
    IN IF service # NoneVal
       THEN LET a == [appointment EXCEPT !["service"] = service,
                                         !["time_info"] = time_info,
                                         !["time"] = CH_parse_time(text_lower),
                                         !["date"] = CH_parse_date(text_lower, t)]
            IN Then(set_user_state(set_appointment_data(e, a), "AWAITING_NAME"),
                    LAMBDA x : BotCall(x, "ask_for_name_with_time"))
       ELSE LET a == [appointment EXCEPT !["time_info"] = time_info]
            IN Then(set_user_state(set_appointment_data(e, a), "AWAITING_SERVICE"),
                    LAMBDA x : BotCall(x, "ask_for_service_with_time"))

CH_handle_idle_state(e0, text, t) ==
    LET e == Mark(e0, "idle")
        text_lower == Lower(text)
    IN IF AnyIn(text_lower, {"hi", "hello", "hey", "niaje", "habari", "start"})
       THEN BotCall(e, "send_greeting")
       ELSE IF AnyIn(text_lower, {"service", "services", "offer", "price", "bei"})
       THEN Then(set_user_viewing_services(e, TRUE),
                 LAMBDA x : BotCall(x, "send_services_list"))
       ELSE IF CH_is_appointment_with_time(text_lower)
       THEN CH_start_appointment_with_time(e, text, t)
       ELSE IF AnyIn(text_lower, {"book", "appointment", "schedule"})
       THEN CH_start_appointment_flow(e)
       ELSE IF AnyIn(text_lower, {"where", "location", "address"})
       THEN BotCall(e, "send_location_info")
       ELSE IF CH_is_service_selection(text_lower)
       THEN CH_start_appointment_for_service(e, CH_extract_service(text_lower))
       ELSE BotCall(e, "send_main_menu")

CH_handle_viewing_services(e0, text, t) ==
    LET e == Mark(e0, "viewing_services")
        text_lower == Lower(text)
    IN IF CH_is_service_selection(text_lower)
       THEN LET service == CH_extract_service(text_lower) IN
            CH_start_appointment_for_service(
                track_service_selection(e, service), service)
       ELSE IF AnyIn(text_lower, {"book", "appointment"})
       THEN CH_start_appointment_flow(e)
       ELSE Then(set_user_state(e, "IDLE"),
                 LAMBDA x : CH_handle_idle_state(x, text, t))

CH_handle_awaiting_service(e0, text) ==
    LET e == Mark(e0, "awaiting_service")
        text_lower == Lower(text)
    IN IF CH_is_service_selection(text_lower)
       THEN LET service == CH_extract_service(text_lower) IN
            CH_start_appointment_for_service(
                track_service_selection(e, service), service)
       ELSE BotCall(e, "ask_for_service_again")

\* In the else branch the local `appointment` is unbound; the attribute
\* lookup on the bot is evaluated before the argument.
CH_handle_awaiting_date(e0, text, t) ==
    LET e == Mark(e0, "awaiting_date")
        date == CH_parse_date(Lower(text), t)
    IN IF date # NoneVal
       THEN LET a == [get_appointment_data(e) EXCEPT !["date"] = date] IN
            Then(set_user_state(set_appointment_data(e, a), "AWAITING_TIME"),
                 LAMBDA x : BotCall(x, "ask_for_time"))
       ELSE Then(BotCall(e, "ask_for_date_again"),
                 LAMBDA x : Raise(x, "UnboundLocalError"))

CH_handle_awaiting_time(e0, text) ==
    LET e == Mark(e0, "awaiting_time")
        time == CH_parse_time(Lower(text))
    IN IF time # NoneVal
       THEN LET a == [get_appointment_data(e) EXCEPT !["time"] = time] IN
            Then(set_user_state(set_appointment_data(e, a), "AWAITING_NAME"),
                 LAMBDA x : BotCall(x, "ask_for_name"))
       ELSE BotCall(e, "ask_for_time_again")

CH_handle_awaiting_name(e0, text) ==
    LET e == Mark(e0, "awaiting_name") IN
    IF Len(Strip(text)) > 1
    THEN LET a == [get_appointment_data(e) EXCEPT
                       !["customer_name"] = Strip(text)] IN
         Then(set_user_state(set_appointment_data(e, a), "AWAITING_PHONE"),
              LAMBDA x : BotCall(x, "ask_for_phone"))
    ELSE BotCall(e, "ask_for_name_again")

\* handle_awaiting_phone with the draft written before the number is
\* validated
CH_handle_awaiting_phone_WritesFirst(e0, text) ==
    LET e == Mark(e0, "awaiting_phone")
        a == [get_appointment_data(e) EXCEPT !["customer_phone"] = Strip(text)]
        e1 == set_appointment_data(e, a)
    IN IF CH_is_valid_phone(text)
       THEN Then(set_user_state(Mark(e1, "phone_accepted"),
                                "AWAITING_CONFIRMATION"),
                 LAMBDA x : BotCall(x, "ask_for_confirmation"))
       ELSE BotCall(Mark(e1, "phone_rejected"), "ask_for_phone_again")

CH_handle_awaiting_phone(e0, text) ==
    LET e == Mark(e0, "awaiting_phone") IN
    IF CH_is_valid_phone(text)
    THEN LET a == [get_appointment_data(e) EXCEPT
                       !["customer_phone"] = Strip(text)] IN
         Then(set_user_state(set_appointment_data(Mark(e, "phone_accepted"), a),
                             "AWAITING_CONFIRMATION"),
              LAMBDA x : BotCall(x, "ask_for_confirmation"))
    ELSE BotCall(Mark(e, "phone_rejected"), "ask_for_phone_again")

CH_AffirmativeTokens == {"yes", "y", "confirm", "ok"}
CH_NegativeTokens == {"no", "cancel"}

CH_handle_awaiting_confirmation(e0, text, dbok) ==
    LET e == Mark(e0, "awaiting_confirmation")
        text_lower == Lower(text)
    IN IF text_lower \in CH_AffirmativeTokens
       THEN LET e1 == save_appointment(Mark(e, "affirmative"), dbok) IN
            IF dbok
            THEN Then(set_user_state(e1, "AWAITING_PAYMENT"),
                      LAMBDA x : BotCall(x, "send_payment_options"))
            ELSE Then(set_user_state(e1, "IDLE"),
                      LAMBDA x : BotCall(x, "send_appointment_error"))
       ELSE IF text_lower \in CH_NegativeTokens
       THEN Then(set_user_state(Mark(e, "negative"), "IDLE"),
                 LAMBDA x : BotCall(x, "send_appointment_cancelled"))
       ELSE BotCall(e, "ask_for_confirmation_again")

CH_process_message(e0, rec, text, t, dbok) ==
    LET e == add_to_conversation_history(e0, rec, "user", text)
        current_state == get_user_state(e)
    IN CASE current_state = "IDLE" -> CH_handle_idle_state(e, text, t)
         [] current_state = "VIEWING_SERVICES" -> CH_handle_viewing_services(e, text, t)
         [] current_state = "AWAITING_SERVICE" -> CH_handle_awaiting_service(e, text)
         [] current_state = "AWAITING_DATE" -> CH_handle_awaiting_date(e, text, t)
         [] current_state = "AWAITING_TIME" -> CH_handle_awaiting_time(e, text)
         [] current_state = "AWAITING_NAME" -> CH_handle_awaiting_name(e, text)
         [] current_state = "AWAITING_PHONE" -> CH_handle_awaiting_phone(e, text)
         [] current_state = "AWAITING_CONFIRMATION" ->
                CH_handle_awaiting_confirmation(e, text, dbok)
         [] OTHER -> Then(set_user_state(Mark(e, "default"), "IDLE"),
                          LAMBDA x : CH_handle_idle_state(x, text, t))

-----------------------------------------------------------------------------
(* working_booking_bot.py : WorkingBookingBot *)

NoBotState == [state |-> Absent, service |-> Absent, payment_method |-> Absent]

Bot_handle_command(e0, text) ==
    LET e == Mark(e0, "command")
        command == Strip(Lower(text))
    IN CASE command = "/start" -> BotCall(e, "send_welcome_message")
         [] command = "/book" -> CH_start_appointment_flow(e)
         [] command = "/services" -> BotCall(e, "send_services_list")
         [] command = "/prices" -> BotCall(e, "show_prices")
         [] command = "/status" -> BotCall(e, "check_mpesa_status")
         [] command = "/help" -> BotCall(e, "show_help")
         [] command = "/clear" -> Send(clear_user_state(e), "state_cleared")
         [] OTHER -> Send(e, "unknown_command")

\* `if response:` re-sends the value the bot method returned
Bot_handle_message(e, rec, rawtext, t, dbok) ==
    LET text == Strip(rawtext) IN
    IF StartsWith(text, "/")
    THEN Bot_handle_command(e, text)
    ELSE LET e1 == update_last_activity(e, t)
             e2 == add_to_conversation_history(e1, rec, "user", text)
         IN Then(CH_process_message(e2, rec, text, t, dbok),
                 LAMBDA x : Send(x, "send_message(response)"))

Bot_start_mpesa_checkout(e, service) ==
    [Send(e, "start_mpesa_checkout") EXCEPT
        !.bus = [state |-> "awaiting_phone", service |-> service,
                 payment_method |-> "mpesa_stk"]]

Bot_confirm_cash_payment(e) ==
    clear_user_state(Send(e, "confirm_cash_payment"))

\* str.replace(prefix, '') for a data string that starts with the prefix once
AfterPrefix(data, prefix) == SubSeq(data, Len(prefix) + 1, Len(data))

Bot_handle_callback(e0, data) ==
    LET e == Mark(e0, "callback") IN
    CASE StartsWith(data, "mpesa_stk_") ->
            Bot_start_mpesa_checkout(e, AfterPrefix(data, "mpesa_stk_"))
      [] StartsWith(data, "mpesa_manual_") -> Send(e, "show_manual_mpesa")
      [] StartsWith(data, "mpesa_info_") -> Send(e, "show_mpesa_info")
      [] StartsWith(data, "cash_") -> Bot_confirm_cash_payment(e)
      [] data = "cancel_booking" -> Send(clear_user_state(e), "booking_cancelled")
      [] OTHER -> Send(e, "unknown_action")

-----------------------------------------------------------------------------
(* whatsapp_conversation_handler.py : WhatsAppConversationHandler *)

\* is_recently_viewed_services is imported from conversation_states, which
\* does not define it.  It is taken from the specification: the user saw the
\* service list less than two minutes ago; `recent` is that comparison of
\* the clock.
is_recently_viewed_services(e, recent) ==
    e.cc.last_topic = "services" /\ recent

WA_is_service_selection(text) ==
    AnyIn(Lower(text), {"haircut", "styling", "hair", "cut", "manicure",
                        "pedicure", "nails", "facial", "face", "skin",
                        "makeup", "make up", "coloring", "colour", "color"})

WA_extract_service(text) ==
    LET text_lower == Lower(text) IN
    IF Contains(text_lower, "hair") \/ Contains(text_lower, "cut")
       \/ Contains(text_lower, "styling")
    THEN "Haircut & Styling"
    ELSE IF Contains(text_lower, "manicure") \/ Contains(text_lower, "pedicure")
            \/ Contains(text_lower, "nails")
    THEN "Manicure/Pedicure"
    ELSE IF Contains(text_lower, "facial") THEN "Facial Treatment"
    ELSE IF Contains(text_lower, "makeup") THEN "Makeup Services"
    ELSE IF Contains(text_lower, "color") \/ Contains(text_lower, "colour")
    THEN "Hair Coloring"
    ELSE NoneVal

WA_is_booking_with_time(text) ==
    /\ AnyIn(text, {"tomorrow", "today", "morning", "afternoon", "evening",
                    "am", "pm"})
    /\ AnyIn(text, {"book", "appointment", "weka", "miadi"})

WA_extract_time_info(text) ==
    IF Contains(text, "tomorrow") /\ Contains(text, "2 pm")
    THEN "tomorrow at 2:00 PM"
    ELSE IF Contains(text, "tomorrow") THEN "tomorrow"
    ELSE IF Contains(text, "today") THEN "today"
    ELSE IF Contains(text, "2 pm") THEN "2:00 PM"
    ELSE "soon"

WA_parse_date(text, t) ==
    IF Contains(text, "tomorrow") THEN IsoDate(Today(t) + 1)
    ELSE IF Contains(text, "today") THEN IsoDate(Today(t))
    ELSE NoneVal

WA_parse_time(text) ==
    IF Contains(text, "2 pm") \/ Contains(text, "2pm") THEN "14:00"
    ELSE IF Contains(text, "morning") THEN "09:00"
    ELSE IF Contains(text, "afternoon") THEN "14:00"
    ELSE IF Contains(text, "evening") THEN "17:00"
    ELSE NoneVal

WA_is_valid_phone(text) ==
    LET cleaned == StripNonDigits(text) IN
    \/ Len(cleaned) = 10 /\ StartsWith(cleaned, "07")
    \/ Len(cleaned) = 12 /\ StartsWith(cleaned, "254")

WA_start_booking_flow(e) ==
    Then(set_user_state(e, "AWAITING_SERVICE"),
         LAMBDA x : Send(x, "ask_for_service"))

WA_start_booking_for_service(e, service) ==
    LET appointment == [get_appointment_data(e) EXCEPT !["service"] = service]
        e1 == set_appointment_data(e, appointment)
    IN Then(set_user_state(e1, "AWAITING_DATE"),
            LAMBDA x : Send(x, "ask_for_date"))

WA_handle_booking_with_time(e, text) ==
    LET text_lower == Lower(text)
        service == WA_extract_service(text_lower)
        time_info == WA_extract_time_info(text_lower)
        appointment == get_appointment_data(e)
    IN IF service # NoneVal
       THEN LET a == [appointment EXCEPT !["service"] = service,
                                         !["time_info"] = time_info]
            IN Then(set_user_state(set_appointment_data(e, a), "AWAITING_NAME"),
                    LAMBDA x : Send(x, "ask_for_name_with_time"))
       ELSE LET a == [appointment EXCEPT !["time_info"] = time_info]
            IN Then(set_user_state(set_appointment_data(e, a), "AWAITING_SERVICE"),
                    LAMBDA x : Send(x, "ask_for_service_with_time"))

WA_handle_idle_state(e0, text) ==
    LET e == Mark(e0, "idle")
        text_lower == Lower(text)
    IN IF AnyIn(text_lower, {"hi", "hello", "hey", "niaje", "habari",
                             "mambo", "sasa"})
       THEN Send(e, "send_greeting")
       ELSE IF AnyIn(text_lower, {"service", "services", "offer", "huduma", "nini"})
       THEN Then(set_user_viewing_services(e, TRUE),
                 LAMBDA x : Send(x, "send_services_list"))
       ELSE IF AnyIn(text_lower, {"where", "location", "wapi", "address", "place"})
       THEN Send(e, "send_location")
       ELSE IF AnyIn(text_lower, {"book", "appointment", "weka", "miadi", "nikaweke"})
       THEN WA_start_booking_flow(e)
       ELSE IF WA_is_booking_with_time(text_lower)
       THEN WA_handle_booking_with_time(e, text)
       ELSE IF WA_is_service_selection(text_lower)
       THEN WA_start_booking_for_service(e, WA_extract_service(text_lower))
       ELSE Send(e, "send_main_menu")

WA_handle_viewing_services(e0, text) ==
    LET e == Mark(e0, "viewing_services")
        text_lower == Lower(text)
    IN IF WA_is_service_selection(text_lower)
       THEN LET service == WA_extract_service(text_lower) IN
            WA_start_booking_for_service(
                track_service_selection(e, service), service)
       ELSE IF AnyIn(text_lower, {"book", "appointment", "weka"})
       THEN WA_start_booking_flow(e)
       ELSE Then(set_user_state(e, "IDLE"),
                 LAMBDA x : WA_handle_idle_state(x, text))

WA_handle_awaiting_service(e0, text) ==
    LET e == Mark(e0, "awaiting_service")
        text_lower == Lower(text)
    IN IF WA_is_service_selection(text_lower)
       THEN LET service == WA_extract_service(text_lower) IN
            WA_start_booking_for_service(
                track_service_selection(e, service), service)
       ELSE Send(e, "ask_for_service_again")

WA_handle_awaiting_date(e0, text, t) ==
    LET e == Mark(e0, "awaiting_date")
        date == WA_parse_date(Lower(text), t)
    IN IF date # NoneVal
       THEN LET a == [get_appointment_data(e) EXCEPT !["date"] = date] IN
            Then(set_user_state(set_appointment_data(e, a), "AWAITING_TIME"),
                 LAMBDA x : Send(x, "ask_for_time"))
       ELSE Send(e, "ask_for_date_again")

WA_handle_awaiting_time(e0, text) ==
    LET e == Mark(e0, "awaiting_time")
        time == WA_parse_time(Lower(text))
    IN IF time # NoneVal
       THEN LET a == [get_appointment_data(e) EXCEPT !["time"] = time] IN
            Then(set_user_state(set_appointment_data(e, a), "AWAITING_NAME"),
                 LAMBDA x : Send(x, "ask_for_name"))
       ELSE Send(e, "ask_for_time_again")

WA_handle_awaiting_name(e0, text) ==
    LET e == Mark(e0, "awaiting_name") IN
    IF Len(Strip(text)) > 1
    THEN LET a == [get_appointment_data(e) EXCEPT
                       !["customer_name"] = Strip(text)] IN
         Then(set_user_state(set_appointment_data(e, a), "AWAITING_PHONE"),
              LAMBDA x : Send(x, "ask_for_phone"))
    ELSE Send(e, "ask_for_name_again")

WA_handle_awaiting_phone(e0, text) ==
    LET e == Mark(e0, "awaiting_phone") IN
    IF WA_is_valid_phone(text)
    THEN LET a == [get_appointment_data(e) EXCEPT
                       !["customer_phone"] = Strip(text)] IN
         Then(set_user_state(set_appointment_data(Mark(e, "phone_accepted"), a),
                             "AWAITING_CONFIRMATION"),
              LAMBDA x : Send(x, "ask_for_confirmation"))
    ELSE Send(Mark(e, "phone_rejected"), "ask_for_phone_again")

WA_AffirmativeTokens == {"yes", "ndio", "y", "confirm", "ok"}
WA_NegativeTokens == {"no", "hapana", "cancel", "change"}

WA_handle_awaiting_confirmation(e0, text, dbok) ==
    LET e == Mark(e0, "awaiting_confirmation")
        text_lower == Lower(text)
    IN IF text_lower \in WA_AffirmativeTokens
       THEN LET e1 == save_appointment(Mark(e, "affirmative"), dbok) IN
            IF dbok
            THEN Then(set_user_state(e1, "AWAITING_PAYMENT"),
                      LAMBDA x : Send(x, "send_payment_options"))
            ELSE Then(set_user_state(e1, "IDLE"),
                      LAMBDA x : Send(x, "send_appointment_error"))
       ELSE IF text_lower \in WA_NegativeTokens
       THEN Send(clear_user_state(Mark(e, "negative")), "send_appointment_cancelled")
       ELSE Send(e, "ask_for_confirmation_again")

WA_dispatch(e, text, t, dbok) ==
    LET current_state == get_user_state(e) IN
    CASE current_state = "IDLE" -> WA_handle_idle_state(e, text)
      [] current_state = "VIEWING_SERVICES" -> WA_handle_viewing_services(e, text)
      [] current_state = "AWAITING_SERVICE" -> WA_handle_awaiting_service(e, text)
      [] current_state = "AWAITING_DATE" -> WA_handle_awaiting_date(e, text, t)
      [] current_state = "AWAITING_TIME" -> WA_handle_awaiting_time(e, text)
      [] current_state = "AWAITING_NAME" -> WA_handle_awaiting_name(e, text)
      [] current_state = "AWAITING_PHONE" -> WA_handle_awaiting_phone(e, text)
      [] current_state = "AWAITING_CONFIRMATION" ->
             WA_handle_awaiting_confirmation(e, text, dbok)
      [] OTHER -> Then(set_user_state(Mark(e, "default"), "IDLE"),
                       LAMBDA x : WA_handle_idle_state(x, text))

\* the whole body is inside try/except: an exception is answered with
\* send_error_message and goes no further
WA_process_message(e0, rec, text, t, dbok, recent) ==
    LET e1 == update_last_activity(e0, t)
        e2 == add_to_conversation_history(e1, rec, "user", text)
        current_state == get_user_state(e2)
        r == IF /\ current_state = "IDLE"
                /\ is_recently_viewed_services(e2, recent)
                /\ WA_is_service_selection(text)
                /\ WA_extract_service(text) # NoneVal
             THEN LET service == WA_extract_service(text) IN
                  WA_start_booking_for_service(
                      track_service_selection(Mark(e2, "recently_viewed"), service),
                      service)
             ELSE WA_dispatch(e2, text, t, dbok)
    IN IF r.exc # "" THEN Send(Mark(Caught(r), "except"), "send_error_message")
       ELSE r

-----------------------------------------------------------------------------
(* message_handler.py : MessageHandler, with its own str-valued state names *)

MH_IDLE == "idle"
MH_APPOINTMENT_IN_PROGRESS == "appointment_in_progress"
MH_AWAITING_CONFIRMATION == "awaiting_confirmation"
MH_AWAITING_PAYMENT == "awaiting_payment"
MH_CHOOSING_LANGUAGE == "choosing_language"
MH_AWAITING_PHONE == "awaiting_phone"
MH_AWAITING_SERVICE == "awaiting_service"
MH_AWAITING_TIME == "awaiting_time"

\* service_mapping in insertion order, and service_prices[...]['default']
MH_service_mapping ==
    << <<"hair", {"hair", "nywele", "cut", "trim", "style", "blow", "braid",
                  "weave", "haircut", "styling", "blowout"}>>,
       <<"nails", {"nail", "manicure", "pedicure", "kucha", "polish", "gel",
                   "nails"}>>,
       <<"face", {"facial", "face", "uso", "skin", "cleanse", "treatment",
                  "skincare"}>>,
       <<"makeup", {"makeup", "beat", "glam", "foundation", "lipstick", "eye",
                    "make up", "make-up", "bridal"}>>,
       <<"massage", {"massage", "massaji", "relax", "spa", "therapy",
                     "body massage"}>> >>

MH_service_prices ==
    [s \in {"hair", "nails", "face", "makeup", "massage"} |->
        CASE s = "hair" -> "800" [] s = "nails" -> "800" [] s = "face" -> "1500"
          [] s = "makeup" -> "2000" [] s = "massage" -> "2000"]

WordChars ==
    UpperChars \cup {LowerCase[i] : i \in 1..26} \cup DigitChars \cup {"_"}

\* re.search(r'\b(w1|w2|...)\b', t)
WordMatch(t, words) ==
    \E w \in words : \E i \in 1..(Len(t) - Len(w) + 1) :
        /\ SubSeq(t, i, i + Len(w) - 1) = w
        /\ i = 1 \/ CharAt(t, i - 1) \notin WordChars
        /\ i + Len(w) > Len(t) \/ CharAt(t, i + Len(w)) \notin WordChars

MH_detect_language_preference(text) ==
    LET text_lower == Lower(text) IN
    IF AnyIn(text_lower, {"mambo", "sasa", "niaje", "msee", "boss", "vipi",
                          "poa", "sawa", "fiti", "vibe"})
    THEN "sheng"
    ELSE IF AnyIn(text_lower, {"habari", "karibu", "asante", "tafadhali",
                               "unataka", "nini", "huduma", "piga"})
    THEN "swenglish"
    ELSE IF WordMatch(text_lower, {"hello", "hi", "hey", "book", "appointment",
                                   "service", "price", "please", "thank"})
    THEN "english"
    ELSE "swenglish"

MH_is_appointment_intent(text) ==
    AnyIn(Lower(text),
          {"book", "appointment", "schedule", "reserve", "miadi", "come in",
           "visit", "see you", "available", "free", "nikaweke", "tengeneza",
           "weka", "ingia", "nataka", "i want", "need", "would like", "napenda",
           "reservation", "make appointment", "set appointment",
           "create appointment", "new appointment", "booking"})

MH_is_language_switch_request(text) ==
    AnyIn(Lower(text), {"english", "swahili", "sheng", "language", "lugha",
                        "zungumza", "speak"})

MH_extract_service_intent(text) ==
    LET text_lower == Lower(text)
        hits == {i \in 1..Len(MH_service_mapping) :
                    AnyIn(text_lower, MH_service_mapping[i][2])}
    IN IF hits = {} THEN NoneVal
       ELSE MH_service_mapping[CHOOSE i \in hits : \A j \in hits : i <= j][1]

\* the reply chosen by generate_cultural_response (it changes no state)
MH_generate_cultural_response(text) ==
    LET message_lower == Lower(text) IN
    IF AnyIn(message_lower, {"hello", "hi", "hey", "mambo", "niaje", "sasa",
                             "habari", "morning", "afternoon"})
    THEN "greeting"
    ELSE IF AnyIn(message_lower, {"service", "huduma", "nini", "offer", "do",
                                  "available"})
    THEN "service_options"
    ELSE IF AnyIn(message_lower, {"price", "cost", "how much", "bei", "pesa",
                                  "charge"})
    THEN "pricing_info"
    ELSE IF AnyIn(message_lower, {"where", "location", "wapi", "place",
                                  "address", "find"})
    THEN "location_info"
    ELSE IF MH_is_appointment_intent(message_lower) THEN "booking_prompt"
    ELSE IF AnyIn(message_lower, {"pay", "payment", "mpesa", "lipa", "cash",
                                  "deposit"})
    THEN "payment_info"
    ELSE IF AnyIn(message_lower, {"thank", "thanks", "asante", "shukran",
                                  "appreciate"})
    THEN "thanks"
    ELSE "engaging_fallback"

MH_offer_language_options(e) ==
    set_user_state(Send(e, "language_options"), MH_CHOOSING_LANGUAGE)

MH_handle_language_selection(e0, text) ==
    LET e == Mark(e0, "choosing_language")
        text_lower == Lower(text)
    IN IF Contains(text_lower, "sheng") \/ Contains(text_lower, "informal")
       THEN set_user_state(Send(set_user_language(e, "sheng"), "language_set"),
                           MH_IDLE)
       ELSE IF Contains(text_lower, "english") \/ Contains(text_lower, "formal")
       THEN set_user_state(Send(set_user_language(e, "english"), "language_set"),
                           MH_IDLE)
       ELSE IF Contains(text_lower, "swenglish") \/ Contains(text_lower, "swahili")
       THEN set_user_state(Send(set_user_language(e, "swenglish"), "language_set"),
                           MH_IDLE)
       ELSE Send(e, "please_choose_language")

MH_ask_for_appointment_time(e, service) ==
    set_user_state(Send(e, "time_question"), MH_AWAITING_TIME)

\* the body is inside try/except Exception, which only logs
MH_start_natural_appointment(e, user_message) ==
    LET service_intent == MH_extract_service_intent(user_message)
        data == [EmptyDraft EXCEPT !["service_intent"] = service_intent,
                                   !["step"] = "service_selection"]
        e1 == set_appointment_data(Mark(e, "start_natural_appointment"), data)
        e2 == set_user_state(e1, MH_APPOINTMENT_IN_PROGRESS)
        e3 == Then(e2, LAMBDA x :
                  IF service_intent # NoneVal
                  THEN MH_ask_for_appointment_time(x, service_intent)
                  ELSE set_user_state(Send(x, "service_question"),
                                      MH_AWAITING_SERVICE))
    IN Caught(e3)

MH_handle_service_selection_text(e, text) ==
    LET service == MH_extract_service_intent(text) IN
    IF service # NoneVal
    THEN LET a == [get_appointment_data(e) EXCEPT
                       !["service"] = service,
                       !["price"] = MH_service_prices[service]] IN
         MH_ask_for_appointment_time(set_appointment_data(e, a), service)
    ELSE Send(e, "which_service")

MH_handle_time_selection(e, text) ==
    LET draft == get_appointment_data(e) IN
    IF draft # EmptyDraft
    THEN LET a == [draft EXCEPT !["preferred_time"] = text]
             e1 == set_user_state(set_appointment_data(e, a),
                                  MH_AWAITING_CONFIRMATION)
         IN Then(e1, LAMBDA x :
                IF a["service"] = Absent \/ a["price"] = Absent
                THEN Raise(x, "KeyError")
                ELSE Send(x, "appointment_summary"))
    ELSE e

\* the service found in the message is written to the local dict only
MH_continue_appointment_flow(e, text) ==
    LET service == MH_extract_service_intent(text) IN
    IF service # NoneVal
    THEN MH_ask_for_appointment_time(e, service)
    ELSE set_user_state(Send(e, "service_question"), MH_AWAITING_SERVICE)

MH_AffirmativeTokens ==
    {"yes", "y", "sawa", "ndio", "confirm", "correct", "ok", "proceed"}
MH_NegativeTokens == {"no", "n", "hapana", "change", "cancel"}

MH_handle_confirmation(e0, text) ==
    LET e == Mark(e0, "awaiting_confirmation")
        text_lower == Lower(text)
    IN IF text_lower \in MH_AffirmativeTokens
       THEN LET draft == get_appointment_data(e)
                e1 == Mark(e, "affirmative")
            IN IF draft # EmptyDraft
               THEN IF draft["service"] = Absent \/ draft["price"] = Absent
                    THEN Raise(e1, "KeyError")
                    ELSE Then(set_user_state(e1, MH_AWAITING_PHONE),
                              LAMBDA x : Send(x, "appointment_confirmed"))
               ELSE set_user_state(Send(e1, "lost_track"), MH_IDLE)
       ELSE IF text_lower \in MH_NegativeTokens
       THEN Then(set_user_state(Mark(e, "negative"), MH_IDLE),
                 LAMBDA x : Send(clear_appointment_data(x), "start_over"))
       ELSE Send(e, "please_reply_yes_or_no")

MH_handle_appointment_conversation(e0, text, user_state) ==
    LET e == Mark(e0, "appointment_conversation") IN
    CASE user_state = MH_APPOINTMENT_IN_PROGRESS ->
             MH_continue_appointment_flow(e, text)
      [] user_state = MH_AWAITING_SERVICE ->
             MH_handle_service_selection_text(e, text)
      [] user_state = MH_AWAITING_TIME -> MH_handle_time_selection(e, text)
      [] user_state = MH_AWAITING_CONFIRMATION -> MH_handle_confirmation(e, text)
      [] OTHER -> Then(set_user_state(Mark(e, "fallback"), MH_IDLE),
                       LAMBDA x : Send(x, "lets_start_over"))

\* payment_handler.py : the methods PaymentHandler defines
PaymentHandlerMethods ==
    {"show_payment_options", "initiate_mpesa_checkout", "process_phone_number",
     "show_manual_mpesa_instructions", "confirm_cash_payment",
     "handle_payment_callback"}

\* payment_handler.<method>(phone_number, ...): the attribute lookup fails for
\* a method the class does not define
PaymentCall(e, method, phone_number) ==
    IF method \in PaymentHandlerMethods
    THEN [e EXCEPT !.stk = phone_number]
    ELSE Raise(e, "AttributeError: no such method")

\* '7' followed by eight digits, starting at position j of t
SevenAndEight(t, j) ==
    /\ j + 8 <= Len(t)
    /\ CharAt(t, j) = "7"
    /\ AllDigits(SubSeq(t, j + 1, j + 8))

PhonePrefixes == <<"254", "+254", "0", "">>

\* re.search(r'(?:254|\+254|0)?(7\d{8})', t).group(1): the leftmost start, and
\* there the first alternative of the optional prefix that lets the rest match
PhoneMatchAt(t, i) ==
    {k \in 1..Len(PhonePrefixes) :
        /\ i + Len(PhonePrefixes[k]) - 1 <= Len(t)
        /\ SubSeq(t, i, i + Len(PhonePrefixes[k]) - 1) = PhonePrefixes[k]
        /\ SevenAndEight(t, i + Len(PhonePrefixes[k]))}

PhoneSearch(t) ==
    LET starts == {i \in 1..Len(t) : PhoneMatchAt(t, i) # {}} IN
    IF starts = {} THEN NoneVal
    ELSE LET i == CHOOSE a \in starts : \A b \in starts : a <= b
             k == CHOOSE a \in PhoneMatchAt(t, i) :
                      \A b \in PhoneMatchAt(t, i) : a <= b
             j == i + Len(PhonePrefixes[k])
         IN SubSeq(t, j, j + 8)

MH_handle_payment_message(e0, text, payok) ==
    LET e == Mark(e0, "awaiting_phone")
        group1 == PhoneSearch(RemoveSpaces(text))
    IN IF group1 # NoneVal
       THEN LET phone_number == "254" \o group1
                draft == get_appointment_data(e)
                e1 == Mark(e, "phone_accepted")
                called == PaymentCall(e1, "initiate_mpesa_payment", phone_number)
                tried == IF called.exc # "" THEN called
                         ELSE IF draft["price"] = Absent \/ draft["service"] = Absent
                         THEN Raise(e1, "KeyError")
                         ELSE IF payok THEN Send(called, "payment_confirmation")
                         ELSE Send(called, "payment_failed")
                e2 == IF tried.exc # ""
                      THEN Send(Caught(tried), "payment_unavailable")
                      ELSE tried
            IN Then(set_user_state(e2, MH_IDLE),
                    LAMBDA x : clear_appointment_data(x))
       ELSE Send(Mark(e, "phone_rejected"), "provide_valid_phone")

\* command_handler.py : CommandHandler.handle_command calls its `async def`
\* handlers without awaiting them: the coroutines are created and never run
CommandHandler_handle_command(e, text) == Mark(e, "command")

MH_natural_language(e0, text) ==
    LET e == Mark(e0, "idle") IN
    IF StartsWith(text, "/")
    THEN CommandHandler_handle_command(e, text)
    ELSE IF MH_is_appointment_intent(text)
    THEN MH_start_natural_appointment(e, text)
    ELSE IF MH_is_language_switch_request(text)
    THEN MH_offer_language_options(e)
    ELSE Send(e, MH_generate_cultural_response(text))

MH_detect_on_idle(e, text) ==
    IF get_user_state(e) = MH_IDLE
    THEN set_user_language(e, MH_detect_language_preference(text))
    ELSE e

\* MessageHandler.handle_message (Telegram)
MH_handle_message(e0, rawtext, payok) ==
    LET text == Strip(rawtext)
        e == MH_detect_on_idle(e0, text)
        user_state == get_user_state(e)
    IN IF user_state = MH_CHOOSING_LANGUAGE
       THEN MH_handle_language_selection(e, text)
       ELSE IF user_state = MH_AWAITING_PHONE
       THEN MH_handle_payment_message(e, text, payok)
       ELSE IF user_state # MH_IDLE
       THEN MH_handle_appointment_conversation(e, text, user_state)
       ELSE MH_natural_language(e, text)

MH_handle_language_selection_response(e0, text) ==
    LET e == Mark(e0, "choosing_language")
        text_lower == Lower(text)
        chosen(lang) ==
            Then(set_user_state(set_user_language(e, lang), MH_IDLE),
                 LAMBDA x : Send(x, "language_set"))
    IN IF Contains(text_lower, "sheng") \/ Contains(text_lower, "informal")
       THEN chosen("sheng")
       ELSE IF Contains(text_lower, "english") \/ Contains(text_lower, "formal")
       THEN chosen("english")
       ELSE IF Contains(text_lower, "swenglish") \/ Contains(text_lower, "swahili")
       THEN chosen("swenglish")
       ELSE Send(e, "please_choose_language")

\* the returned text is sent by the caller; the handlers called here send
\* their own messages first
MH_process_message_based_on_state(e, text, current_state, payok) ==
    IF current_state = MH_CHOOSING_LANGUAGE
    THEN MH_handle_language_selection_response(e, text)
    ELSE IF current_state = MH_AWAITING_PHONE
    THEN Then(MH_handle_payment_message(e, text, payok),
              LAMBDA x : Send(x, "processing_payment"))
    ELSE IF current_state \in {MH_APPOINTMENT_IN_PROGRESS, MH_AWAITING_SERVICE,
                               MH_AWAITING_TIME, MH_AWAITING_CONFIRMATION}
    THEN Then(MH_handle_appointment_conversation(e, text, current_state),
              LAMBDA x : Send(x, "processing_appointment"))
    ELSE LET x == Mark(e, "idle") IN
         IF StartsWith(text, "/")
         THEN Send(CommandHandler_handle_command(x, text), "processing_command")
         ELSE IF MH_is_appointment_intent(text)
         THEN Send(MH_start_natural_appointment(x, text), "starting_appointment")
         ELSE IF MH_is_language_switch_request(text)
         THEN Then(MH_offer_language_options(x),
                   LAMBDA y : Send(y, "please_choose_language"))
         ELSE Send(x, MH_generate_cultural_response(text))

\* MessageHandler.handle_whatsapp_message_async: try/except around the body
MH_handle_whatsapp_message_async(e0, rawtext, payok) ==
    LET text == Strip(rawtext)
        current_state == get_user_state(e0)
        e == MH_detect_on_idle(e0, text)
    IN MH_process_message_based_on_state(Mark(e, "whatsapp"), text,
                                         current_state, payok)

MH_handle_service_selection(e, service) ==
    LET price == IF service \in DOMAIN MH_service_prices
                 THEN MH_service_prices[service] ELSE "1000"
        data == [EmptyDraft EXCEPT !["service"] = service, !["price"] = price]
    IN Then(set_user_state(set_appointment_data(e, data),
                           MH_APPOINTMENT_IN_PROGRESS),
            LAMBDA x : MH_ask_for_appointment_time(x, service))

\* MessageHandler.handle_callback: try/except Exception around the body
MH_handle_callback(e0, data) ==
    LET e == Mark(e0, "callback")
        r == IF StartsWith(data, "service_")
             THEN MH_handle_service_selection(e, AfterPrefix(data, "service_"))
             ELSE IF data = "book_appointment"
             THEN MH_start_natural_appointment(e, "book appointment")
             ELSE IF data = "ask_prices" THEN Send(e, "pricing_info")
             ELSE IF data = "location" THEN Send(e, "location_info")
             ELSE e
    IN Caught(r)

-----------------------------------------------------------------------------
(* M-Pesa result callback *)

\* _clean_phone_number that keeps the leading 0 behind the country code
PaymentHandler_clean_phone_number_KeepsZero(phone_text) ==
    IF phone_text = "" THEN NoneVal
    ELSE LET cleaned == StripNonDigits(phone_text) IN
         IF StartsWith(cleaned, "0") /\ Len(cleaned) = 10 THEN "254" \o cleaned
         ELSE IF StartsWith(cleaned, "254") /\ Len(cleaned) = 12 THEN cleaned
         ELSE IF StartsWith(cleaned, "7") /\ Len(cleaned) = 9 THEN "254" \o cleaned
         ELSE NoneVal

\* PaymentHandler._clean_phone_number: ''.join(filter(str.isdigit, ...)) and
\* the conversion to the 254 format; None for an unrecognized number
PaymentHandler_clean_phone_number(phone_text) ==
    IF phone_text = "" THEN NoneVal
    ELSE LET cleaned == StripNonDigits(phone_text) IN
         IF StartsWith(cleaned, "0") /\ Len(cleaned) = 10
         THEN "254" \o SubSeq(cleaned, 2, Len(cleaned))
         ELSE IF StartsWith(cleaned, "254") /\ Len(cleaned) = 12 THEN cleaned
         ELSE IF StartsWith(cleaned, "7") /\ Len(cleaned) = 9 THEN "254" \o cleaned
         ELSE IF StartsWith(cleaned, "+254") /\ Len(cleaned) = 13
         THEN SubSeq(cleaned, 2, Len(cleaned))
         ELSE NoneVal

\* MpesaService._format_phone_number
MpesaService_format_phone_number(phone_number) ==
    IF phone_number = "" THEN NoneVal
    ELSE LET cleaned == StripNonDigits(phone_number) IN
         IF StartsWith(cleaned, "0") /\ Len(cleaned) = 10
         THEN "254" \o SubSeq(cleaned, 2, Len(cleaned))
         ELSE IF StartsWith(cleaned, "254") /\ Len(cleaned) = 12 THEN cleaned
         ELSE IF StartsWith(cleaned, "7") /\ Len(cleaned) = 9 THEN "254" \o cleaned
         ELSE NoneVal

\* WhatsAppService._format_phone_number
WhatsAppService_format_phone_number(phone_number) ==
    LET cleaned == StripNonDigits(phone_number) IN
    IF StartsWith(cleaned, "0") /\ Len(cleaned) = 10
    THEN "254" \o SubSeq(cleaned, 2, Len(cleaned))
    ELSE IF StartsWith(cleaned, "7") /\ Len(cleaned) = 9 THEN "254" \o cleaned
    ELSE IF StartsWith(cleaned, "254") /\ Len(cleaned) = 12 THEN cleaned
    ELSE IF StartsWith(cleaned, "+254") /\ Len(cleaned) = 13
    THEN SubSeq(cleaned, 2, Len(cleaned))
    ELSE NoneVal

\* PaymentHandler._handle_successful_payment: logs the receipt; the two
\* helpers it calls (_update_appointment_payment, _send_payment_confirmation)
\* only log
PaymentHandler_handle_successful_payment(e) == Mark(e, "payment_success")

\* PaymentHandler._handle_failed_payment
PaymentHandler_handle_failed_payment(e) == Mark(e, "payment_failed")

\* PaymentHandler.handle_payment_callback
PaymentHandler_handle_payment_callback(e, result_code) ==
    IF result_code = 0
    THEN PaymentHandler_handle_successful_payment(e)
    ELSE PaymentHandler_handle_failed_payment(e)

\* the view bot.views.mpesa_callback: the package's view acknowledges the
\* callback without processing it, the module's view hands it to
\* PaymentHandler
mpesa_callback(e, result_code, processed) ==
    IF processed
    THEN PaymentHandler_handle_payment_callback(Mark(e, "mpesa_callback"),
                                                result_code)
    ELSE Mark(e, "mpesa_callback")

-----------------------------------------------------------------------------
(* The end-to-end scenario of the booking flow *)

Scenario == <<"hi", "haircut", "tomorrow", "2pm", "Jane", "0712345678", "yes">>

\* script[c] = Off: the session of c is not following the scenario
Off == Len(Scenario) + 1

Fresh(e) == e.st = Absent /\ e.ad = EmptyDraft

\* script[c] = k: the session of c was fresh and since then exactly the first
\* k messages of Scenario were handled by WorkingBookingBot.handle_update
NextScript(c, op, text, e) ==
    IF op = "bot_message" /\ script[c] # Off /\ script[c] < Len(Scenario)
       /\ text = Scenario[script[c] + 1]
    THEN script[c] + 1
    ELSE IF Fresh(e) THEN 0 ELSE Off

-----------------------------------------------------------------------------
(* Actions *)

\* a store whose state entry is not keyed by the chat
Store_SharedState(c, op, text, e) ==
    /\ user_states' = [d \in Chats |-> e.st]
    /\ appointment_data' = [appointment_data EXCEPT ![c] = e.ad]
    /\ conversation_context' = [conversation_context EXCEPT ![c] = e.cc]
    /\ conversation_history' = [conversation_history EXCEPT ![c] = e.hist]
    /\ bot_user_states' = [bot_user_states EXCEPT ![c] = e.bus]
    /\ script' = [script EXCEPT ![c] = NextScript(c, op, text, e)]
    /\ last' = [op |-> op, chat |-> c, text |-> text,
                pre_st |-> user_states[c], pre_ad |-> appointment_data[c],
                pre_cc |-> conversation_context[c], at |-> now,
                out |-> e.out, path |-> e.path, exc |-> e.exc,
                stk |-> e.stk, saved |-> e.saved]
    /\ now' = now

\* the entries of chat c become what the handler left in e
Store(c, op, text, e) ==
    /\ user_states' = [user_states EXCEPT ![c] = e.st]
    /\ appointment_data' = [appointment_data EXCEPT ![c] = e.ad]
    /\ conversation_context' = [conversation_context EXCEPT ![c] = e.cc]
    /\ conversation_history' = [conversation_history EXCEPT ![c] = e.hist]
    /\ bot_user_states' = [bot_user_states EXCEPT ![c] = e.bus]
    /\ script' = [script EXCEPT ![c] = NextScript(c, op, text, e)]
    /\ last' = [op |-> op, chat |-> c, text |-> text,
                pre_st |-> user_states[c], pre_ad |-> appointment_data[c],
                pre_cc |-> conversation_context[c], at |-> now,
                out |-> e.out, path |-> e.path, exc |-> e.exc,
                stk |-> e.stk, saved |-> e.saved]
    /\ now' = now

Commit(c, op, text, e) == Store(c, op, text, e) /\ UNCHANGED aux

\* What the user types: any text of T in any state, and in addition a reply
\* of R to the confirmation prompt
Typed(c, T, R) ==
    T \cup (IF user_states[c] \in {"AWAITING_CONFIRMATION", "awaiting_confirmation"}
            THEN R ELSE {})

\* WorkingBookingBot.handle_update for an update carrying a message; the
\* failing database outcome is drawn only when the handler reaches the write
BotMessage(c, T, R, rec) ==
    \E text \in Typed(c, T, R), dbok \in BOOLEAN :
        /\ dbok \/ Bot_handle_message(Eff(c), rec, text, now, TRUE).saved # ""
        /\ Commit(c, "bot_message", text,
                  Bot_handle_message(Eff(c), rec, text, now, dbok))

\* WorkingBookingBot.handle_update for an update carrying a callback query
BotCallback(c, D) ==
    \E data \in D :
        Commit(c, "bot_callback", data, Bot_handle_callback(Eff(c), data))

\* WhatsAppConversationHandler.process_message
WAMessage(c, T, R, rec) ==
    \E text \in Typed(c, T, R), dbok \in BOOLEAN, recent \in BOOLEAN :
        /\ dbok \/ WA_process_message(Eff(c), rec, text, now, TRUE, recent).saved # ""
        /\ recent \/ /\ get_user_state(Eff(c)) = "IDLE"
                     /\ conversation_context[c].last_topic = "services"
        /\ Commit(c, "wa_message", text,
                  WA_process_message(Eff(c), rec, text, now, dbok, recent))

\* MessageHandler.handle_update for a Telegram update carrying a message; the
\* adapter's result is drawn only when the adapter is reached
MHMessage(c, T, R) ==
    \E text \in Typed(c, T, R), payok \in BOOLEAN :
        /\ payok \/ MH_handle_message(Eff(c), text, TRUE).stk # ""
        /\ Commit(c, "mh_message", text, MH_handle_message(Eff(c), text, payok))

\* MessageHandler.handle_update for a WhatsApp-style update
MHWhatsApp(c, T, R) ==
    \E text \in Typed(c, T, R), payok \in BOOLEAN :
        /\ payok \/ MH_handle_whatsapp_message_async(Eff(c), text, TRUE).stk # ""
        /\ Commit(c, "mh_whatsapp", text,
                  MH_handle_whatsapp_message_async(Eff(c), text, payok))

\* MessageHandler.handle_update for a Telegram update carrying a callback query
MHCallback(c, D) ==
    \E data \in D :
        Commit(c, "mh_callback", data, MH_handle_callback(Eff(c), data))

\* the wall clock advances by d minutes
Tick(D) ==
    \E d \in D :
        /\ now + d <= MaxNow
        /\ now' = now + d
        /\ UNCHANGED <<user_states, appointment_data, conversation_context,
                       conversation_history, bot_user_states, script, last>>
        /\ UNCHANGED aux

\* the payment provider posts the result of the STK push requested for c
MpesaCallback(c, Codes) ==
    \E code \in Codes, processed \in BOOLEAN :
        Commit(c, "mpesa_callback", IF code = 0 THEN "0" ELSE "1",
               mpesa_callback(Eff(c), code, processed))

\* str(bool)
PyBool(b) == IF b THEN "True" ELSE "False"

\* a function of the phone number is applied to the text under test; its
\* result is the only output and the store is left alone
Applied(op, result) ==
    Commit(last.chat, op, last.text, Send(Eff(last.chat), result))

IsValidPhoneCH == Applied("CH.is_valid_phone", PyBool(CH_is_valid_phone(last.text)))

IsValidPhoneWA == Applied("WA.is_valid_phone", PyBool(WA_is_valid_phone(last.text)))

\* phone_match of MessageHandler.handle_payment_message
PhoneMatchMH == Applied("MH.phone_match", PhoneSearch(RemoveSpaces(last.text)))

CleanPhoneNumber ==
    Applied("PaymentHandler._clean_phone_number",
            PaymentHandler_clean_phone_number(last.text))

FormatPhoneMpesa ==
    Applied("MpesaService._format_phone_number",
            MpesaService_format_phone_number(last.text))

FormatPhoneWhatsApp ==
    Applied("WhatsAppService._format_phone_number",
            WhatsAppService_format_phone_number(last.text))

\* no call of a store function yet
NoCall ==
    [fn |-> "init", store |-> "", chat |-> "c1", arg |-> EmptyDraft,
     pre |-> EmptyDraft, ret |-> EmptyDraft, alias |-> FALSE]

ThreadIds == {"t1", "t2"}

\* no message is being handled concurrently
NoThreads ==
    [base |-> [st |-> Absent, ad |-> EmptyDraft], overlapped |-> FALSE,
     of |-> [t \in ThreadIds |->
                [pc |-> "idle", text |-> "", current_state |-> Absent,
                 appointment |-> EmptyDraft]]]

\* the Bot API before any update was sent
NoTelegram == [pending |-> <<>>, next_id |-> 1]

\* run_working_booking_bot not called: no locals (offset <<>> is None, <<n>>
\* the number n); returned and handled are the updates get_updates returned
\* and handle_update received in this run
NoPoller ==
    [pc |-> "off", offset |-> <<>>, error_count |-> 0, updates |-> <<>>,
     pos |-> 0, batches |-> 0, failed_polls |-> 0, returned |-> <<>>,
     handled |-> <<>>]

\* railway_bot.main before its for loop
NoRunner == [pc |-> "for", attempt |-> 0, starts |-> 0, after |-> <<>>]

InitAux ==
    /\ fallback_appointment_data = [c \in Chats |-> <<>>]
    /\ call = NoCall
    /\ appended = [c \in Chats |-> <<>>]
    /\ threads = NoThreads
    /\ telegram = NoTelegram
    /\ poller = NoPoller
    /\ runner = NoRunner

Init ==
    /\ InitAux
    /\ user_states = [c \in Chats |-> Absent]
    /\ appointment_data = [c \in Chats |-> EmptyDraft]
    /\ conversation_context = [c \in Chats |-> EmptyCtx]
    /\ conversation_history = [c \in Chats |-> <<>>]
    /\ bot_user_states = [c \in Chats |-> NoBotState]
    /\ now = 0
    /\ script = [c \in Chats |-> 0]
    /\ last = [op |-> "init", chat |-> "c1", text |-> "",
               pre_st |-> Absent, pre_ad |-> EmptyDraft,
               pre_cc |-> EmptyCtx, at |-> 0,
               out |-> <<>>, path |-> <<>>, exc |-> "", stk |-> "", saved |-> ""]

\* the draft a store holds for c; a chat without an entry has the empty one
StoredDraft(store, c) ==
    IF store = "conversation_states" THEN appointment_data[c]
    ELSE IF fallback_appointment_data[c] = <<>> THEN EmptyDraft
    ELSE fallback_appointment_data[c][1]

\* conversation_states.set_appointment_data(c, data)
SetAppointmentData(c, P) ==
    \E data \in P :
        /\ Store(c, "set_appointment_data", "", set_appointment_data(Eff(c), data))
        /\ call' = [fn |-> "set_appointment_data", store |-> "conversation_states",
                    chat |-> c, arg |-> data, pre |-> appointment_data[c],
                    ret |-> EmptyDraft, alias |-> FALSE]
        /\ UNCHANGED <<fallback_appointment_data, appended, threads,
                   telegram, poller, runner>>

\* conversation_states.get_appointment_data(c): the caller receives a copy
GetAppointmentData(c) ==
    /\ call' = [fn |-> "get_appointment_data", store |-> "conversation_states",
                chat |-> c, arg |-> EmptyDraft, pre |-> appointment_data[c],
                ret |-> get_appointment_data(Eff(c)), alias |-> FALSE]
    /\ UNCHANGED <<user_states, appointment_data, conversation_context,
                   conversation_history, bot_user_states, now, script, last,
                   fallback_appointment_data, appended, threads,
                   telegram, poller, runner>>

\* set_appointment_data of _create_fallback_states:
\* appointment_data[chat_id] = data
FallbackSetAppointmentData(c, P) ==
    \E data \in P :
        /\ fallback_appointment_data' =
               [fallback_appointment_data EXCEPT ![c] = <<data>>]
        /\ call' = [fn |-> "set_appointment_data", store |-> "fallback",
                    chat |-> c, arg |-> data, pre |-> StoredDraft("fallback", c),
                    ret |-> EmptyDraft, alias |-> FALSE]
        /\ UNCHANGED <<user_states, appointment_data, conversation_context,
                       conversation_history, bot_user_states, now, script, last,
                       appended, threads,
                   telegram, poller, runner>>

\* get_appointment_data of _create_fallback_states:
\* appointment_data.get(chat_id, {}), the stored dict itself when there is one
FallbackGetAppointmentData(c) ==
    /\ call' = [fn |-> "get_appointment_data", store |-> "fallback",
                chat |-> c, arg |-> EmptyDraft, pre |-> StoredDraft("fallback", c),
                ret |-> StoredDraft("fallback", c),
                alias |-> fallback_appointment_data[c] # <<>>]
    /\ UNCHANGED <<user_states, appointment_data, conversation_context,
                   conversation_history, bot_user_states, now, script, last,
                   fallback_appointment_data, appended, threads,
                   telegram, poller, runner>>

\* the caller assigns to a key of the mapping it received: returned[k] = v
MutateReturned(K, V) ==
    \E k \in K, v \in V :
        /\ call.fn \in {"get_appointment_data", "mutate"}
        /\ call' = [call EXCEPT !.fn = "mutate",
                                !.arg = [EmptyDraft EXCEPT ![k] = v],
                                !.pre = StoredDraft(call.store, call.chat),
                                !.ret = [call.ret EXCEPT ![k] = v]]
        /\ fallback_appointment_data' =
               IF call.alias
               THEN [fallback_appointment_data EXCEPT ![call.chat][1][k] = v]
               ELSE fallback_appointment_data
        /\ UNCHANGED <<user_states, appointment_data, conversation_context,
                       conversation_history, bot_user_states, now, script, last,
                       appended, threads,
                   telegram, poller, runner>>

\* conversation_states.add_to_conversation_history(c, role, message); the
\* message is the number of the entry
AddToConversationHistory(c, Roles) ==
    \E role \in Roles :
        LET message == TwoDigits(Len(appended[c]) + 1) IN
        /\ Len(appended[c]) < MaxAppended
        /\ Store(c, "add_to_conversation_history", message,
                 add_to_conversation_history(Eff(c), TRUE, role, message))
        /\ appended' = [appended EXCEPT ![c] =
                            Append(@, [role |-> role, message |-> message])]
        /\ UNCHANGED <<fallback_appointment_data, call, threads,
                   telegram, poller, runner>>

\* conversation_states.clear_user_state(c)
ClearUserState(c) ==
    /\ Store(c, "clear_user_state", "", clear_user_state(Eff(c)))
    /\ appended' = [appended EXCEPT ![c] = <<>>]
    /\ UNCHANGED <<fallback_appointment_data, call, threads,
                   telegram, poller, runner>>

\* Two updates of chat c arrive while it is asked for the name, and a worker
\* starts ConversationHandler.process_message for each.  A worker runs
\* handle_awaiting_name or handle_awaiting_phone one store call at a time
\* (update_last_activity and the history entry are left out).
Arrive(c, M) ==
    \E m1 \in M, m2 \in M :
        /\ \A t \in ThreadIds : threads.of[t].pc = "idle"
        /\ user_states[c] = "AWAITING_NAME"
        /\ threads' = [base |-> [st |-> user_states[c], ad |-> appointment_data[c]],
                       overlapped |-> FALSE,
                       of |-> [t \in ThreadIds |->
                                 [pc |-> "get_user_state",
                                  text |-> IF t = "t1" THEN m1 ELSE m2,
                                  current_state |-> Absent,
                                  appointment |-> EmptyDraft]]]
        /\ UNCHANGED <<user_states, appointment_data, conversation_context,
                       conversation_history, bot_user_states, now, script, last,
                       fallback_appointment_data, call, appended,
                   telegram, poller, runner>>

\* the answer fits the step the worker found the session in
ThreadAccepts(current_state, text) ==
    \/ current_state = "AWAITING_NAME" /\ Len(Strip(text)) > 1
    \/ current_state = "AWAITING_PHONE" /\ CH_is_valid_phone(text)

\* the draft field handle_awaiting_name / handle_awaiting_phone writes,
\* with the phone field written in both steps
ThreadField_AlwaysPhone(current_state) == "customer_phone"

\* the draft field handle_awaiting_name / handle_awaiting_phone writes
ThreadField(current_state) ==
    IF current_state = "AWAITING_NAME" THEN "customer_name" ELSE "customer_phone"

\* the state handle_awaiting_name / handle_awaiting_phone sets
ThreadNextState(current_state) ==
    IF current_state = "AWAITING_NAME" THEN "AWAITING_PHONE"
    ELSE "AWAITING_CONFIRMATION"

\* process_message: current_state = get_user_state(chat_id), and the test of
\* the handler it dispatches to
ThreadGetUserState(c, t) ==
    LET me == threads.of[t]
        current_state == get_user_state(Eff(c))
    IN /\ me.pc = "get_user_state"
       /\ current_state \in {"AWAITING_NAME", "AWAITING_PHONE"}
       /\ threads' =
              [threads EXCEPT
                  !.overlapped = @ \/ \E u \in ThreadIds \ {t} :
                      threads.of[u].pc \notin {"get_user_state", "done"},
                  !.of[t].current_state = current_state,
                  !.of[t].pc = IF ThreadAccepts(current_state, me.text)
                               THEN "get_appointment_data" ELSE "done"]
       /\ UNCHANGED <<user_states, appointment_data, conversation_context,
                      conversation_history, bot_user_states, now, script, last,
                      fallback_appointment_data, call, appended,
                   telegram, poller, runner>>

\* appointment = get_appointment_data(chat_id); appointment[field] = text.strip()
ThreadGetAppointmentData(c, t) ==
    LET me == threads.of[t] IN
    /\ me.pc = "get_appointment_data"
    /\ threads' =
           [threads EXCEPT
               !.of[t].appointment =
                   [get_appointment_data(Eff(c)) EXCEPT
                       ![ThreadField(me.current_state)] = Strip(me.text)],
               !.of[t].pc = "set_appointment_data"]
    /\ UNCHANGED <<user_states, appointment_data, conversation_context,
                   conversation_history, bot_user_states, now, script, last,
                   fallback_appointment_data, call, appended,
                   telegram, poller, runner>>

\* set_appointment_data(chat_id, appointment)
ThreadSetAppointmentData(c, t) ==
    LET me == threads.of[t] IN
    /\ me.pc = "set_appointment_data"
    /\ Store(c, "thread", me.text, set_appointment_data(Eff(c), me.appointment))
    /\ threads' = [threads EXCEPT !.of[t].pc = "set_user_state"]
    /\ UNCHANGED <<fallback_appointment_data, call, appended,
                   telegram, poller, runner>>

\* set_user_state(chat_id, <next step>), and the prompt for the next step
ThreadSetUserState(c, t) ==
    LET me == threads.of[t] IN
    /\ me.pc = "set_user_state"
    /\ Store(c, "thread", me.text,
             set_user_state(Eff(c), ThreadNextState(me.current_state)))
    /\ threads' = [threads EXCEPT !.of[t].pc = "done"]
    /\ UNCHANGED <<fallback_appointment_data, call, appended,
                   telegram, poller, runner>>

\* a call of a function of conversation_states for chat c
StoreCall(c, op, text, e) ==
    /\ Store(c, op, text, e)
    /\ UNCHANGED aux

ClearAppointmentData(c) ==
    StoreCall(c, "clear_appointment_data", "", clear_appointment_data(Eff(c)))

SetUserViewingServices(c) ==
    \E viewing \in BOOLEAN :
        StoreCall(c, "set_user_viewing_services", "",
                  set_user_viewing_services(Eff(c), viewing))

TrackServiceSelection(c, S) ==
    \E service \in S :
        StoreCall(c, "track_service_selection", service,
                  track_service_selection(Eff(c), service))

SetDraft(c, P) ==
    \E data \in P :
        StoreCall(c, "set_appointment_data", "", set_appointment_data(Eff(c), data))

SetPaymentData(c, P) ==
    \E payment_data \in P :
        StoreCall(c, "set_payment_data", payment_data,
                  set_payment_data(Eff(c), payment_data))

ClearPaymentData(c) ==
    StoreCall(c, "clear_payment_data", "", clear_payment_data(Eff(c)))

\* the variables of the stores and of the observation
store_vars ==
    <<user_states, appointment_data, conversation_context,
      conversation_history, bot_user_states, now, script, last>>

draft_aux == <<fallback_appointment_data, call, appended, threads>>

\* run_working_booking_bot: max_errors = 10
max_errors == 10

\* railway_bot.main: max_retries = 3
max_retries == 3

\* updates sent to the bot in one behaviour
MaxUpdates == 3

\* polls in a row counted as failed before the count stops growing
MaxFailedPolls == 10

\* what a user sends to the bot while it polls
PollTexts == {"haircut", "n"}

\* a user writes to the running bot: the Bot API queues an update under the
\* next id
UserSends ==
    /\ runner.pc = "run"
    /\ telegram.next_id <= MaxUpdates
    /\ \E text \in PollTexts :
         telegram' = [telegram EXCEPT
                        !.pending = Append(@, [update_id |-> telegram.next_id,
                                               text |-> text]),
                        !.next_id = @ + 1]
    /\ UNCHANGED <<store_vars, draft_aux, poller, runner>>

\* getUpdates: the unconfirmed updates from the offset on; without offset all
Unconfirmed(pending, offset) ==
    SelectSeq(pending,
              LAMBDA u : offset = <<>> \/ u.update_id >= offset[1])

\* offset = update['update_id'] + 1, with the update id itself
NextOffset_SameId(update) == update.update_id

\* offset = update['update_id'] + 1
NextOffset(update) == update.update_id + 1

\* run_working_booking_bot returns with the given locals to main's for loop,
\* which takes the next attempt
RunReturns(locals) ==
    /\ runner' = [runner EXCEPT !.pc = "for", !.attempt = @ + 1,
                                !.after = Append(@, "returned")]
    /\ poller' = [locals EXCEPT !.pc = "off"]

\* main's except Exception: before the last attempt it goes to sleep, on the
\* last attempt it re-raises
RunCrashes(locals) ==
    /\ runner' = [runner EXCEPT
                    !.pc = IF runner.attempt < max_retries - 1
                           THEN "sleep" ELSE "raised",
                    !.after = Append(@, "crashed")]
    /\ poller' = [locals EXCEPT !.pc = "off"]

\* main, for attempt in range(max_retries): the next attempt calls
\* run_working_booking_bot, the exhausted range ends main
MainFor ==
    /\ runner.pc = "for"
    /\ IF runner.attempt < max_retries
       THEN /\ runner' = [runner EXCEPT !.pc = "run", !.starts = @ + 1]
            /\ poller' = [NoPoller EXCEPT !.pc = "setup"]
       ELSE /\ runner' = [runner EXCEPT !.pc = "done"]
            /\ UNCHANGED poller
    /\ UNCHANGED <<store_vars, draft_aux, telegram>>

\* main: time.sleep(retry_delay), then the next attempt
MainSleep ==
    /\ runner.pc = "sleep"
    /\ runner' = [runner EXCEPT !.pc = "for", !.attempt = @ + 1]
    /\ UNCHANGED <<store_vars, draft_aux, telegram, poller>>

\* run_working_booking_bot before its loop: building the services raises
SetupRaises ==
    /\ poller.pc = "setup"
    /\ RunCrashes(poller)
    /\ UNCHANGED <<store_vars, draft_aux, telegram>>

\* run_working_booking_bot before its loop: test_connection() is False, return
SetupNoConnection ==
    /\ poller.pc = "setup"
    /\ RunReturns(poller)
    /\ UNCHANGED <<store_vars, draft_aux, telegram>>

\* run_working_booking_bot before its loop: a new WorkingBookingBot, then
\* offset = None and error_count = 0
SetupDone ==
    /\ poller.pc = "setup"
    /\ poller' = [poller EXCEPT !.pc = "poll"]
    /\ bot_user_states' = [c \in Chats |-> NoBotState]
    /\ UNCHANGED <<user_states, appointment_data, conversation_context,
                   conversation_history, now, script, last, draft_aux,
                   telegram, runner>>

\* get_updates answers with a result: the Bot API drops what the offset
\* confirms; a non-empty result is iterated, an empty one is "No messages"
PollResult ==
    /\ poller.pc = "poll"
    /\ LET result == Unconfirmed(telegram.pending, poller.offset) IN
       /\ telegram' = [telegram EXCEPT !.pending = result]
       /\ poller' = IF result # <<>>
                    THEN [poller EXCEPT !.pc = "batch", !.updates = result,
                                        !.pos = 1, !.failed_polls = 0,
                                        !.returned = @ \o result]
                    ELSE [poller EXCEPT !.failed_polls = 0]
    /\ UNCHANGED <<store_vars, draft_aux, runner>>

\* get_updates: the request fails or the status is not 200, the function
\* returns None and the loop body does nothing
PollFails ==
    /\ poller.pc = "poll"
    /\ poller.failed_polls < MaxFailedPolls
    /\ poller' = [poller EXCEPT !.failed_polls = @ + 1]
    /\ UNCHANGED <<store_vars, draft_aux, telegram, runner>>

\* get_updates returns a 200 body that is no JSON object: updates.get raises
\* in the loop, except Exception counts it; at max_errors the loop breaks
PollMalformed ==
    /\ poller.pc = "poll"
    /\ IF poller.error_count + 1 >= max_errors
       THEN RunReturns([poller EXCEPT !.error_count = @ + 1,
                                      !.failed_polls = 0])
       ELSE /\ poller' = [poller EXCEPT !.error_count = @ + 1,
                                        !.failed_polls = 0]
            /\ UNCHANGED runner
    /\ UNCHANGED <<store_vars, draft_aux, telegram>>

\* for update in updates['result']: bot.handle_update(update), whose
\* try/except keeps the handler's exception, then the offset; after the last
\* update of the batch error_count = 0
HandleUpdate ==
    /\ poller.pc = "batch"
    /\ LET update == poller.updates[poller.pos]
           done == poller.pos = Len(poller.updates)
       IN \E dbok \in BOOLEAN :
           LET e == Bot_handle_message(Eff("c1"), FALSE, update.text, now, dbok)
           IN /\ dbok \/ Bot_handle_message(Eff("c1"), FALSE, update.text,
                                            now, TRUE).saved # ""
              /\ Store("c1", "bot_message", update.text, e)
              /\ poller' = [poller EXCEPT
                    !.handled = Append(@, [update_id |-> update.update_id,
                                           exc |-> e.exc,
                                           batch |-> poller.batches + 1]),
                    !.offset = <<NextOffset(update)>>,
                    !.updates = IF done THEN <<>> ELSE @,
                    !.pos = IF done THEN 0 ELSE @ + 1,
                    !.pc = IF done THEN "poll" ELSE "batch",
                    !.batches = IF done THEN @ + 1 ELSE @,
                    !.error_count = IF done THEN 0 ELSE @]
    /\ UNCHANGED <<draft_aux, telegram, runner>>

\* KeyboardInterrupt in the loop: break, the function returns
Interrupt ==
    /\ poller.pc \in {"poll", "batch"}
    /\ RunReturns(poller)
    /\ UNCHANGED <<store_vars, draft_aux, telegram>>

\* messages of the booking dialogue
Texts ==
    {"hi", "haircut", "tomorrow", "2pm", "Jane", "0712345678", "yes",
     "no", "hapana", "cancel", "12345", "+254 712 345 678", "/clear"}

\* further replies to the confirmation prompt
ConfirmationReplies ==
    {"n", "change", "y", "ndio", "NDIO", "confirm", "ok", "No"}

Callbacks ==
    {"mpesa_stk_Haircut & Styling", "cash_Haircut & Styling", "cancel_booking"}

Next ==
    \/ BotMessage("c1", Texts, ConfirmationReplies, FALSE)
    \/ BotCallback("c1", Callbacks)

Spec == Init /\ [][Next]_vars

\* messages to WhatsAppConversationHandler
WATexts ==
    {"hi", "services", "haircut", "tomorrow", "2pm", "Jane", "0712345678",
     "no", "hapana", "cancel", "12345"}

WAReplies == {"yes", "n", "ndio", "NDIO", "change"}

NextWA == WAMessage("c1", WATexts, WAReplies, FALSE)

SpecWA == Init /\ [][NextWA]_vars

\* messages and callback data to MessageHandler
MHTexts ==
    {"hi", "book", "haircut", "2pm", "0712345678", "12345", "yes", "no",
     "language", "sheng"}

MHReplies == {"n", "ndio", "change"}

MHCallbacks == {"service_hair", "book_appointment", "ask_prices"}

NextMH ==
    \/ MHMessage("c1", MHTexts, MHReplies)
    \/ MHWhatsApp("c1", MHTexts, MHReplies)
    \/ MHCallback("c1", MHCallbacks)

SpecMH == Init /\ [][NextMH]_vars

\* messages to WorkingBookingBot while the clock runs
ClockTexts == {"hi", "/book", "haircut", "tomorrow", "2pm"}

ClockSteps == {10, TimeoutMinutes + 1}

NextClock ==
    \/ BotMessage("c1", ClockTexts, {}, FALSE)
    \/ Tick(ClockSteps)

SpecClock == Init /\ [][NextClock]_vars

\* The session store is a module of one process: the polling process of
\* WorkingBookingBot or the webhook process of MessageHandler.  The first
\* update decides which of the two this store belongs to.
ServedBy(ops) == last.op \in ops \cup {"init"}

\* messages and callback data that lead to, and answer, the phone step
PhoneTexts ==
    {"haircut", "tomorrow", "2pm", "Jane", "0712345678", "12345", "yes",
     "+254 712 345 678"}

NextPhone ==
    \/ ServedBy({"bot_message"}) /\ BotMessage("c1", PhoneTexts, {}, FALSE)
    \/ ServedBy({"mh_message", "mh_callback"}) /\ MHMessage("c1", PhoneTexts, {})
    \/ ServedBy({"mh_message", "mh_callback"}) /\ MHCallback("c1", {"service_hair"})
    \/ ServedBy({"wa_message"}) /\ WAMessage("c1", PhoneTexts, {}, FALSE)

SpecPhone == Init /\ [][NextPhone]_vars

\* the booking dialogue up to the payment step, the payment buttons and the
\* provider's result codes (0 = paid, 1032 = cancelled by the user)
PayTexts == {"haircut", "tomorrow", "2pm", "Jane", "0712345678", "yes"}

PayCallbacks == {"mpesa_stk_Haircut & Styling", "cash_Haircut & Styling"}

ResultCodes == {0, 1032}

NextPay ==
    \/ BotMessage("c1", PayTexts, {}, FALSE)
    \/ BotCallback("c1", PayCallbacks)
    \/ MpesaCallback("c1", ResultCodes)

SpecPay == Init /\ [][NextPay]_vars

\* what a user may type to an idle session, and answers to the prompts that
\* follow
IdleTexts ==
    {"hi", "services", "haircut", "book", "Jane", "book a haircut", "hi book",
     "I want to book a haircut tomorrow at 2pm", "book haircut tomorrow 2 pm",
     "nipo prices", "where to book"}

NextIdle ==
    \/ ServedBy({"bot_message"}) /\ BotMessage("c1", IdleTexts, {}, FALSE)
    \/ ServedBy({"wa_message"}) /\ WAMessage("c1", IdleTexts, {}, FALSE)
    \/ ServedBy({"mh_message"}) /\ MHMessage("c1", IdleTexts, {})

SpecIdle == Init /\ [][NextIdle]_vars

\* requests to change the language, and answers to the language question
LangTexts ==
    {"hi", "book", "haircut", "2pm", "English please", "sheng", "swenglish",
     "english"}

NextLang ==
    \/ MHMessage("c1", LangTexts, {})
    \/ MHWhatsApp("c1", LangTexts, {})

SpecLang == Init /\ [][NextLang]_vars

\* answers to the prompts of the booking steps, valid for one step and
\* invalid for the others
StepTexts ==
    {"book", "haircut", "tomorrow", "2pm", "Jane", "0712345678", "12345", "n"}

NextSteps ==
    \/ ServedBy({"bot_message"}) /\ BotMessage("c1", StepTexts, {}, FALSE)
    \/ ServedBy({"wa_message"}) /\ WAMessage("c1", StepTexts, {}, FALSE)

SpecSteps == Init /\ [][NextSteps]_vars

\* a booking dialogue, its refusal, and a new request that names a service
\* and a time but no day
DraftTexts ==
    {"haircut", "tomorrow", "2pm", "Jane", "0712345678", "no",
     "book haircut 2pm"}

NextDraft ==
    \/ ServedBy({"bot_message"}) /\ BotMessage("c1", DraftTexts, {}, FALSE)
    \/ ServedBy({"wa_message"}) /\ WAMessage("c1", DraftTexts, {}, FALSE)

SpecDraft == Init /\ [][NextDraft]_vars

\* phone numbers as users write them: an optional prefix, the first digit of
\* the subscriber number, and the rest of it, short, exact, long or spaced
PhonePrefixIn == {"", "0", "254", "+254 "}
PhoneFirstDigit == {"7", "1", "2"}
PhoneRest == {"12345678", "1234567", "123456789", "12 345 678"}

PhoneInputs ==
    {p \o d \o r : p \in PhonePrefixIn, d \in PhoneFirstDigit, r \in PhoneRest}
        \cup {"Jane"}

InitNumbers ==
    \E x \in PhoneInputs :
        /\ InitAux
        /\ user_states = [c \in Chats |-> Absent]
        /\ appointment_data = [c \in Chats |-> EmptyDraft]
        /\ conversation_context = [c \in Chats |-> EmptyCtx]
        /\ conversation_history = [c \in Chats |-> <<>>]
        /\ bot_user_states = [c \in Chats |-> NoBotState]
        /\ now = 0
        /\ script = [c \in Chats |-> 0]
        /\ last = [op |-> "input", chat |-> "c1", text |-> x,
                   pre_st |-> Absent, pre_ad |-> EmptyDraft,
                   pre_cc |-> EmptyCtx, at |-> 0,
                   out |-> <<>>, path |-> <<>>, exc |-> "", stk |-> "", saved |-> ""]

NextNumbers ==
    \/ IsValidPhoneCH
    \/ IsValidPhoneWA
    \/ PhoneMatchMH
    \/ CleanPhoneNumber
    \/ FormatPhoneMpesa
    \/ FormatPhoneWhatsApp

SpecNumbers == InitNumbers /\ [][NextNumbers]_vars

\* answers to the questions for the day and for the time
WhenTexts ==
    {"haircut", "today", "tomorrow", "monday", "2pm", "10am", "12pm", "3pm",
     "morning", "afternoon", "evening", "Jane"}

NextWhen ==
    \/ ServedBy({"bot_message"}) /\ BotMessage("c1", WhenTexts, {}, FALSE)
    \/ ServedBy({"wa_message"}) /\ WAMessage("c1", WhenTexts, {}, FALSE)

SpecWhen == Init /\ [][NextWhen]_vars

\* partial drafts handed to set_appointment_data
Partials ==
    {[EmptyDraft EXCEPT !["service"] = "Haircut & Styling"],
     [EmptyDraft EXCEPT !["date"] = "2026-01-02"],
     [EmptyDraft EXCEPT !["service"] = "Beard Trim", !["time"] = "14:00"]}

NextDraftStore ==
    \/ SetAppointmentData("c1", Partials)
    \/ GetAppointmentData("c1")
    \/ FallbackSetAppointmentData("c1", Partials)
    \/ FallbackGetAppointmentData("c1")
    \/ MutateReturned({"service", "customer_name"}, {"Jane"})

SpecDraftStore == Init /\ [][NextDraftStore]_vars

NextHistory ==
    \/ AddToConversationHistory("c1", {"user", "bot"})
    \/ ClearUserState("c1")

SpecHistory == Init /\ [][NextHistory]_vars

\* the dialogue up to the question for the name, then two answers at once
RaceTexts == {"haircut", "tomorrow", "2pm"}

RaceAnswers == {"Jane", "0712345678"}

NextRace ==
    \/ /\ \A t \in ThreadIds : threads.of[t].pc = "idle"
       /\ BotMessage("c1", RaceTexts, {}, FALSE)
    \/ Arrive("c1", RaceAnswers)
    \/ \E t \in ThreadIds : ThreadGetUserState("c1", t)
    \/ \E t \in ThreadIds : ThreadGetAppointmentData("c1", t)
    \/ \E t \in ThreadIds : ThreadSetAppointmentData("c1", t)
    \/ \E t \in ThreadIds : ThreadSetUserState("c1", t)

SpecRace == Init /\ [][NextRace]_vars

\* two chats talk to the same process: messages, a command and callbacks
IsolationTexts == {"haircut", "tomorrow", "/clear"}

IsolationMHTexts == {"hi", "book", "sheng"}

NextIsolation ==
    \/ \E c \in Chats :
           /\ ServedBy({"bot_message", "bot_callback"})
           /\ BotMessage(c, IsolationTexts, {}, TRUE)
    \/ \E c \in Chats :
           /\ ServedBy({"bot_message", "bot_callback"})
           /\ BotCallback(c, {"cancel_booking"})
    \/ \E c \in Chats :
           /\ ServedBy({"mh_message", "mh_callback"})
           /\ MHMessage(c, IsolationMHTexts, {})
    \/ \E c \in Chats :
           /\ ServedBy({"mh_message", "mh_callback"})
           /\ MHCallback(c, {"service_hair"})

SpecIsolation == Init /\ [][NextIsolation]_vars

\* payment mappings handed to set_payment_data
Payments == {"{'method': 'mpesa'}", "{'method': 'cash'}", EmptyPayment}

NextContext ==
    \/ ClearAppointmentData("c1")
    \/ SetUserViewingServices("c1")
    \/ TrackServiceSelection("c1", {"Haircut & Styling"})
    \/ SetDraft("c1", Partials)
    \/ SetPaymentData("c1", Payments)
    \/ ClearPaymentData("c1")

SpecContext == Init /\ [][NextContext]_vars

\* the booking command and the booking dialogue of MessageHandler
CommandTexts == {"/book", "hi", "book", "haircut", "2pm", "yes", "no"}

NextCommand == MHMessage("c1", CommandTexts, {})

SpecCommand == Init /\ [][NextCommand]_vars

\* one run of run_working_booking_bot, started by main's first attempt,
\* polling the Bot API while a user writes
NextPoll ==
    \/ runner.attempt = 0 /\ MainFor
    \/ SetupDone
    \/ UserSends
    \/ PollResult
    \/ PollFails
    \/ PollMalformed
    \/ HandleUpdate
    \/ Interrupt

SpecPoll == Init /\ [][NextPoll]_vars

\* railway_bot.main and its attempts: each run ends before its loop, by the
\* loop's error count or by an interrupt; nobody writes to the bot
NextMain ==
    \/ MainFor
    \/ MainSleep
    \/ SetupRaises
    \/ SetupNoConnection
    \/ SetupDone
    \/ PollMalformed
    \/ Interrupt

SpecMain == Init /\ [][NextMain]_vars

-----------------------------------------------------------------------------
(* Properties *)

\* the state get_user_state returns for c
StateOf(c) == IF user_states[c] = Absent THEN "IDLE" ELSE user_states[c]

Range(f) == {f[i] : i \in DOMAIN f}

MessageOps == {"bot_message", "wa_message", "mh_message", "mh_whatsapp"}

\* the states the scenario is in after its k-th message
C1_Visited ==
    <<"IDLE", "AWAITING_DATE", "AWAITING_TIME", "AWAITING_NAME",
      "AWAITING_PHONE", "AWAITING_CONFIRMATION", "AWAITING_PAYMENT">>

\* C1: from a fresh session handled by ConversationHandler with
\* WorkingBookingBot, the messages hi, haircut, tomorrow, 2pm, Jane,
\* 0712345678, yes visit IDLE, AWAITING_DATE, AWAITING_TIME, AWAITING_NAME,
\* AWAITING_PHONE, AWAITING_CONFIRMATION in that order and (the appointment
\* saved) end in AWAITING_PAYMENT with the draft holding the hair service,
\* tomorrow's ISO date, time 14:00, name Jane and phone 254712345678.
C1_EndToEndBooking ==
    LET k == script["c1"] IN
    (k \in 1..Len(Scenario) /\ (k = Len(Scenario) => last.saved = "ok")) =>
        /\ StateOf("c1") = C1_Visited[k]
        /\ k = Len(Scenario) =>
               appointment_data["c1"] =
                   [EmptyDraft EXCEPT
                       !["service"] = "Haircut & Styling",
                       !["date"] = IsoDate(Today(last.at) + 1),
                       !["time"] = "14:00",
                       !["customer_name"] = "Jane",
                       !["customer_phone"] = "254712345678"]

\* C2: whatever the handlers have processed, the stored state of a user is a
\* member of the ConversationState enum (or not stored yet, which
\* get_user_state reports as IDLE), and no set_user_state call has raised.
C2_StateIsEnumMember ==
    /\ user_states["c1"] \in ConversationState \cup {Absent}
    /\ last.exc # StrHasNoValue

\* C3: the first message (not a command) of a user with no stored state is
\* handled by the IDLE branch of its entry point and the user gets that
\* branch's response.
C3_FirstMessageTakesIdleBranch ==
    (/\ last.op \in MessageOps
     /\ last.pre_st = Absent
     /\ ~StartsWith(Strip(last.text), "/")) =>
        /\ "idle" \in Range(last.path)
        /\ last.out # <<>>

C4_NegativeTokens == {"no", "n", "hapana", "cancel", "change"}

\* C4: in AWAITING_CONFIRMATION a reply that is, ignoring case, one of no, n,
\* hapana, cancel, change sets the state to IDLE and empties the draft.
C4_NegativeReplyDiscardsDraft ==
    (/\ last.op \in MessageOps
     /\ last.pre_st = "AWAITING_CONFIRMATION"
     /\ Lower(last.text) \in C4_NegativeTokens) =>
        /\ StateOf(last.chat) = "IDLE"
        /\ get_appointment_data(Eff(last.chat)) = EmptyDraft

C5_AffirmativeTokens == {"yes", "y", "ndio", "confirm", "ok"}

\* C5: in AWAITING_CONFIRMATION a reply that is, ignoring case, one of yes, y,
\* ndio, confirm, ok reaches save_appointment and, when the save succeeds,
\* sets the state to AWAITING_PAYMENT and sends the payment options.
C5_AffirmativeReplyPersists ==
    (/\ last.op \in MessageOps
     /\ last.pre_st = "AWAITING_CONFIRMATION"
     /\ Lower(last.text) \in C5_AffirmativeTokens) =>
        /\ last.saved # ""
        /\ last.saved = "ok" =>
               /\ StateOf(last.chat) = "AWAITING_PAYMENT"
               /\ "send_payment_options" \in Range(last.out)

\* 254 followed by nine digits, no plus sign
IsCanonicalPhone(p) == Len(p) = 12 /\ StartsWith(p, "254") /\ AllDigits(p)

\* C6: in AWAITING_PHONE an input accepted as a valid number moves the state
\* to AWAITING_CONFIRMATION and is stored as customer_phone in the form
\* 254XXXXXXXXX; 0712345678 is stored as 254712345678.
C6_AcceptedPhoneIsCanonical ==
    (/\ last.op \in MessageOps
     /\ last.pre_st = "AWAITING_PHONE"
     /\ "phone_accepted" \in Range(last.path)) =>
        /\ StateOf(last.chat) = "AWAITING_CONFIRMATION"
        /\ IsCanonicalPhone(appointment_data[last.chat]["customer_phone"])
        /\ last.text = "0712345678" =>
               appointment_data[last.chat]["customer_phone"] = "254712345678"

\* C7: an input rejected by the phone validation of the phone step leaves
\* the stored state (the phone step) and the draft as they were.
C7_RejectedPhoneChangesNothing ==
    "phone_rejected" \in Range(last.path) =>
        /\ last.pre_st \in {"AWAITING_PHONE", MH_AWAITING_PHONE}
        /\ user_states[last.chat] = last.pre_st
        /\ appointment_data[last.chat] = last.pre_ad

\* a state where ConversationHandler has just rejected 12345 at the phone step
C7_RejectedByConversationHandler ==
    /\ last.op = "bot_message"
    /\ last.text = "12345"
    /\ last.pre_st = "AWAITING_PHONE"
    /\ last.pre_ad["customer_name"] = "Jane"
    /\ "phone_rejected" \in Range(last.path)

\* a session with nothing stored
FreshSession ==
    [st |-> Absent, ad |-> EmptyDraft, cc |-> EmptyCtx, hist |-> <<>>,
     bus |-> NoBotState,
     out |-> <<>>, path |-> <<>>, exc |-> "", stk |-> "", saved |-> ""]

\* C8: a message that arrives more than 30 minutes after last_activity is
\* handled as if the state were IDLE with the earlier draft discarded (it
\* leaves the state and draft that the same message leaves in a session with
\* nothing stored), and every inbound message, text or command, sets
\* last_activity to its arrival time.
C8_IdleTimeoutResets ==
    last.op = "bot_message" =>
        /\ (/\ last.pre_cc.last_activity # NoTime
            /\ last.at - last.pre_cc.last_activity > TimeoutMinutes) =>
               LET fresh == Bot_handle_message(FreshSession, FALSE, last.text,
                                               last.at, TRUE)
               IN /\ user_states[last.chat] = fresh.st
                  /\ appointment_data[last.chat] = fresh.ad
        /\ conversation_context[last.chat].last_activity = last.at

C9_States ==
    {"VIEWING_SERVICES", "AWAITING_SERVICE", "AWAITING_DATE", "AWAITING_TIME",
     "AWAITING_NAME", "AWAITING_PHONE", "AWAITING_CONFIRMATION",
     "AWAITING_PAYMENT", "CHOOSING_LANGUAGE"}

C9_CancelInputs == {"no", "cancel", "hapana"}

\* C9: in every state other than IDLE the inputs no, cancel and hapana move
\* the session to IDLE and write no field of the draft.
C9_CancelFromAnyState ==
    (/\ last.op \in MessageOps
     /\ last.pre_st \in C9_States
     /\ Lower(last.text) \in C9_CancelInputs) =>
        /\ StateOf(last.chat) = "IDLE"
        /\ \A k \in DraftKeys :
               \/ appointment_data[last.chat][k] = last.pre_ad[k]
               \/ appointment_data[last.chat][k] = Absent

\* C10: in AWAITING_PAYMENT a phone number from the user is handed to the
\* payment adapter, and whatever the adapter does the session ends IDLE with
\* an empty draft.
C10_PaymentPhoneInvokesAdapter ==
    (/\ last.op \in MessageOps
     /\ last.pre_st = "AWAITING_PAYMENT"
     /\ CH_is_valid_phone(last.text)) =>
        /\ last.stk # ""
        /\ StateOf(last.chat) = "IDLE"
        /\ appointment_data[last.chat] = EmptyDraft


\* C11: after the payment provider's callback reporting success (ResultCode
\* 0) for a session in AWAITING_PAYMENT has been handled, the state of the
\* session is IDLE and its draft is empty.
C11_PaidSessionIsCleared ==
    (/\ last.op = "mpesa_callback"
     /\ last.text = "0"
     /\ last.pre_st = "AWAITING_PAYMENT") =>
        /\ StateOf(last.chat) = "IDLE"
        /\ get_appointment_data(Eff(last.chat)) = EmptyDraft


\* a session that get_user_state reports as IDLE before the last operation
WasIdle == last.pre_st \in {Absent, "IDLE", MH_IDLE}

C12_CombinedRequests ==
    {"I want to book a haircut tomorrow at 2pm", "book haircut tomorrow 2 pm"}

\* C12: from IDLE, one message with a booking keyword, a service, a date word
\* and a time phrase stores the hair service, tomorrow's ISO date and time
\* 14:00 in the draft and reaches at least AWAITING_NAME in that turn.
C12_CombinedExtraction ==
    (/\ last.op \in {"bot_message", "wa_message"}
     /\ WasIdle
     /\ last.text \in C12_CombinedRequests) =>
        /\ appointment_data[last.chat]["service"] \in {"hair", "Haircut & Styling"}
        /\ appointment_data[last.chat]["date"] = IsoDate(Today(last.at) + 1)
        /\ appointment_data[last.chat]["time"] = "14:00"
        /\ StateOf(last.chat) \in {"AWAITING_NAME", "AWAITING_PHONE",
                                   "AWAITING_CONFIRMATION", "AWAITING_PAYMENT"}


\* C13: from IDLE, a booking request that names a service stores the service
\* under the draft key service and moves to AWAITING_DATE (AWAITING_TIME in
\* MessageHandler) without asking which service is wanted.
C13_BookingWithServiceSkipsQuestion ==
    (/\ last.op \in MessageOps
     /\ WasIdle
     /\ "idle" \in Range(last.path)
     /\ last.text = "book a haircut") =>
        /\ appointment_data[last.chat]["service"] \in {"hair", "Haircut & Styling"}
        /\ StateOf(last.chat) \in {"AWAITING_DATE", "AWAITING_TIME", MH_AWAITING_TIME}
        /\ Range(last.out) \cap {"ask_for_service", "service_question"} = {}


\* the session before the last operation, had its state been IDLE
C14_IdleTwin ==
    [FreshSession EXCEPT !.st = "IDLE", !.ad = last.pre_ad, !.cc = last.pre_cc]

\* what the IDLE handling of the last message gives
C14_AsIdle ==
    IF last.op = "bot_message"
    THEN Bot_handle_message(C14_IdleTwin, FALSE, last.text, last.at, TRUE)
    ELSE WA_process_message(C14_IdleTwin, FALSE, last.text, last.at, TRUE, FALSE)

C14_NoService ==
    IF last.op = "bot_message"
    THEN CH_extract_service(Lower(last.text)) = NoneVal
    ELSE WA_extract_service(Lower(last.text)) = NoneVal

\* C14: in VIEWING_SERVICES an input that names no service leaves the state,
\* the draft and the response that the same input leaves when it arrives in
\* IDLE.
C14_ViewingServicesRedispatch ==
    (/\ last.op \in {"bot_message", "wa_message"}
     /\ last.pre_st = "VIEWING_SERVICES"
     /\ C14_NoService) =>
        /\ user_states[last.chat] = C14_AsIdle.st
        /\ appointment_data[last.chat] = C14_AsIdle.ad
        /\ last.out = C14_AsIdle.out


\* the responses that carry the price figures
C15_PriceResponses == {"send_services_list", "show_prices", "pricing_info"}

\* C15: from IDLE the price inquiry nipo prices is answered with the prices
\* and the state of the session stays IDLE.
C15_PriceInquiryStaysIdle ==
    (/\ last.op \in MessageOps
     /\ WasIdle
     /\ "idle" \in Range(last.path)
     /\ last.text = "nipo prices") =>
        /\ Range(last.out) \cap C15_PriceResponses # {}
        /\ StateOf(last.chat) \in {"IDLE", MH_IDLE}


\* keywords that every handler counts for the intent
C16_Greeting == {"hi", "hello", "hey"}
C16_Location == {"where", "location", "address"}
C16_Booking == {"book", "appointment"}

\* keywords some handler counts for service_inquiry or price_inquiry
C16_ServiceOrPrice ==
    {"service", "offer", "price", "bei", "huduma", "nini", "do", "available",
     "cost", "how much", "pesa", "charge"}

C16_Matched(text) ==
    {i \in {"greeting", "location_inquiry", "booking_request"} :
        AnyIn(Lower(text), CASE i = "greeting" -> C16_Greeting
                             [] i = "location_inquiry" -> C16_Location
                             [] OTHER -> C16_Booking)}

\* the highest-priority intent among the matched ones
C16_Expected(text) ==
    IF "greeting" \in C16_Matched(text) THEN "greeting"
    ELSE IF "location_inquiry" \in C16_Matched(text) THEN "location_inquiry"
    ELSE "booking_request"

\* the intent the last operation acted upon, read off its responses
C16_Acted ==
    IF Range(last.out) \cap {"send_greeting", "greeting"} # {} THEN "greeting"
    ELSE IF Range(last.out) \cap {"send_location_info", "send_location",
                                  "location_info"} # {}
    THEN "location_inquiry"
    ELSE IF \/ Range(last.out) \cap {"ask_for_service", "service_question",
                                      "time_question", "booking_prompt"} # {}
            \/ "start_natural_appointment" \in Range(last.path)
    THEN "booking_request"
    ELSE "other"

\* C16: an IDLE message that matches the keywords of more than one intent is
\* handled as the first matching intent of the order greeting >
\* service_inquiry > price_inquiry > location_inquiry > booking_request; a
\* message matching greeting and booking keywords is handled as a greeting.
C16_FirstMatchingIntentWins ==
    (/\ last.op \in MessageOps
     /\ WasIdle
     /\ "idle" \in Range(last.path)
     /\ Cardinality(C16_Matched(last.text)) >= 2
     /\ ~AnyIn(Lower(last.text), C16_ServiceOrPrice)) =>
        C16_Acted = C16_Expected(last.text)


\* the last message was an explicit language change: a request to switch
\* language, or the answer to the language question
C17_ExplicitChange ==
    \/ last.pre_st \in {"CHOOSING_LANGUAGE", MH_CHOOSING_LANGUAGE}
    \/ MH_is_language_switch_request(last.text)

\* C17: once the language of a session is set, a message that is not an
\* explicit language change leaves get_user_language as it was.
C17_LanguageIsSticky ==
    (/\ last.op \in MessageOps \cup {"mh_callback", "bot_callback"}
     /\ last.pre_cc.language # Absent
     /\ ~C17_ExplicitChange) =>
        get_user_language(Eff(last.chat)) = last.pre_cc.language


C18_Languages == {"sheng", "swenglish", "english"}

\* the languages the text names
C18_Named(text) == {l \in C18_Languages : WordMatch(Lower(text), {l})}

\* C18: in CHOOSING_LANGUAGE an input naming sheng, swenglish or english
\* sets the language to the named one and returns the state to IDLE; an
\* input naming none of them leaves the state and the language as they were.
C18_NamedLanguageIsSet ==
    (/\ last.op \in {"mh_message", "mh_whatsapp"}
     /\ last.pre_st = MH_CHOOSING_LANGUAGE) =>
        IF C18_Named(last.text) # {}
        THEN /\ get_user_language(Eff(last.chat)) \in C18_Named(last.text)
             /\ StateOf(last.chat) \in {"IDLE", MH_IDLE}
        ELSE /\ user_states[last.chat] = last.pre_st
             /\ conversation_context[last.chat].language = last.pre_cc.language


\* an exception left the handler of the last message and reached the
\* try/except of the entry point
C19_ReachedBoundary == last.exc # "" \/ "except" \in Range(last.path)

\* C19: when the handling of a message raises, the entry point catches the
\* exception, sends the user the generic error message and resets the
\* session to IDLE.
C19_ExceptionResetsSession ==
    (last.op \in MessageOps /\ C19_ReachedBoundary) =>
        /\ "send_error_message" \in Range(last.out)
        /\ StateOf(last.chat) = "IDLE"


\* the re-prompt of each data step
C20_Reprompt ==
    [s \in {"AWAITING_SERVICE", "AWAITING_DATE", "AWAITING_TIME",
            "AWAITING_NAME", "AWAITING_PHONE"} |->
        CASE s = "AWAITING_SERVICE" -> "ask_for_service_again"
          [] s = "AWAITING_DATE" -> "ask_for_date_again"
          [] s = "AWAITING_TIME" -> "ask_for_time_again"
          [] s = "AWAITING_NAME" -> "ask_for_name_again"
          [] OTHER -> "ask_for_phone_again"]

\* the last message was not a valid answer to the step the session was in,
\* by the parser of the handler that received it
C20_Invalid ==
    LET text_lower == Lower(last.text)
        bot == last.op = "bot_message"
    IN CASE last.pre_st = "AWAITING_SERVICE" ->
                IF bot THEN ~CH_is_service_selection(text_lower)
                ELSE ~WA_is_service_selection(text_lower)
         [] last.pre_st = "AWAITING_DATE" ->
                IF bot THEN CH_parse_date(text_lower, last.at) = NoneVal
                ELSE WA_parse_date(text_lower, last.at) = NoneVal
         [] last.pre_st = "AWAITING_TIME" ->
                IF bot THEN CH_parse_time(text_lower) = NoneVal
                ELSE WA_parse_time(text_lower) = NoneVal
         [] last.pre_st = "AWAITING_NAME" -> Len(Strip(last.text)) <= 1
         [] OTHER ->
                IF bot THEN ~CH_is_valid_phone(last.text)
                ELSE ~WA_is_valid_phone(last.text)

\* C20: in AWAITING_SERVICE, AWAITING_DATE, AWAITING_TIME, AWAITING_NAME and
\* AWAITING_PHONE an invalid input raises nothing, is answered with the
\* re-prompt of the same step and leaves the state unchanged.
C20_InvalidInputReprompts ==
    (/\ last.op \in {"bot_message", "wa_message"}
     /\ last.pre_st \in DOMAIN C20_Reprompt
     /\ C20_Invalid) =>
        /\ ~C19_ReachedBoundary
        /\ C20_Reprompt[last.pre_st] \in Range(last.out)
        /\ user_states[last.chat] = last.pre_st


\* the fields of a booking
BookingFields == {"service", "date", "time", "customer_name", "customer_phone"}

\* a draft value that is present and not None or the empty string
NonEmpty(v) == v \notin {Absent, NoneVal, ""}

\* C21: unless the session is cleared, a booking field of the draft that
\* holds a non-empty value still holds a non-empty value after the next
\* message is handled.
C21_DraftFieldsMonotonic ==
    (/\ last.op \in MessageOps
     /\ appointment_data[last.chat] # EmptyDraft) =>
        \A k \in BookingFields :
            NonEmpty(last.pre_ad[k]) => NonEmpty(appointment_data[last.chat][k])


\* C22: whenever a session of ConversationHandler or
\* WhatsAppConversationHandler is in AWAITING_CONFIRMATION or
\* AWAITING_PAYMENT, its draft holds a non-empty service, date, time,
\* customer_name and customer_phone.
C22_DraftCompleteAtConfirmation ==
    (/\ last.op \in {"bot_message", "wa_message"}
     /\ user_states[last.chat] \in {"AWAITING_CONFIRMATION", "AWAITING_PAYMENT"}) =>
        \A k \in BookingFields : NonEmpty(appointment_data[last.chat][k])


\* the numbers the specification calls valid
C23_Valid(text) ==
    LET cleaned == StripNonDigits(text) IN
    \/ Len(cleaned) = 10 /\ StartsWith(cleaned, "0")
                         /\ CharAt(cleaned, 2) \in {"7", "1"}
    \/ Len(cleaned) = 12 /\ StartsWith(cleaned, "2547")
    \/ Len(cleaned) = 9 /\ StartsWith(cleaned, "7")

C23_Accepted ==
    IF last.op \in {"CH.is_valid_phone", "WA.is_valid_phone"}
    THEN last.out = <<"True">>
    ELSE last.out # <<NoneVal>>

\* C23: each of ConversationHandler.is_valid_phone,
\* WhatsAppConversationHandler.is_valid_phone,
\* PaymentHandler._clean_phone_number and the phone pattern of
\* MessageHandler.handle_payment_message accepts a text exactly when its
\* digits are 0 then 7 or 1 then eight digits, 254 then 7 then eight digits,
\* or 7 then eight digits.
C23_ValidationAcceptsExactlyValid ==
    last.op \in {"CH.is_valid_phone", "WA.is_valid_phone", "MH.phone_match",
                 "PaymentHandler._clean_phone_number"} =>
        (C23_Accepted <=> C23_Valid(last.text))


\* the normalizer that produced the last result, applied to x
C24_Normalize(x) ==
    CASE last.op = "PaymentHandler._clean_phone_number" ->
             PaymentHandler_clean_phone_number(x)
      [] last.op = "MpesaService._format_phone_number" ->
             MpesaService_format_phone_number(x)
      [] last.op = "WhatsAppService._format_phone_number" ->
             WhatsAppService_format_phone_number(x)

\* C24: a number accepted by PaymentHandler._clean_phone_number,
\* MpesaService._format_phone_number or WhatsAppService._format_phone_number
\* is normalized to a number that the same function maps to itself.
C24_NormalizationIdempotent ==
    (/\ last.op \in {"PaymentHandler._clean_phone_number",
                     "MpesaService._format_phone_number",
                     "WhatsAppService._format_phone_number"}
     /\ last.out # <<NoneVal>>) =>
        C24_Normalize(last.out[1]) = last.out[1]

\* the local form was rewritten to the international one
C24_LocalNumberNormalized ==
    /\ last.op = "PaymentHandler._clean_phone_number"
    /\ last.text = "0712345678"
    /\ last.out = <<"254712345678">>
    /\ C24_Normalize("254712345678") = "254712345678"


\* the time phrases of the specification and the times they stand for
C25_Vocabulary ==
    [t \in {"2pm", "10am", "morning", "afternoon", "evening"} |->
        CASE t = "2pm" -> "14:00"
          [] t = "10am" -> "10:00"
          [] t = "morning" -> "09:00"
          [] t = "afternoon" -> "14:00"
          [] t = "evening" -> "17:00"]

\* C25: in AWAITING_TIME a phrase of the vocabulary is stored as its HH:MM
\* time and the state becomes AWAITING_NAME; any other input stores no time
\* and leaves the state AWAITING_TIME.
C25_TimeVocabulary ==
    (/\ last.op \in {"bot_message", "wa_message"}
     /\ last.pre_st = "AWAITING_TIME") =>
        IF last.text \in DOMAIN C25_Vocabulary
        THEN /\ user_states[last.chat] = "AWAITING_NAME"
             /\ appointment_data[last.chat]["time"] = C25_Vocabulary[last.text]
        ELSE /\ user_states[last.chat] = "AWAITING_TIME"
             /\ appointment_data[last.chat]["time"] = last.pre_ad["time"]

C26_DatePhrases == {"today", "tomorrow", "monday"}

\* YYYY-MM-DD
C26_IsIsoDate(d) ==
    /\ Len(d) = 10
    /\ CharAt(d, 5) = "-" /\ CharAt(d, 8) = "-"
    /\ AllDigits(SubSeq(d, 1, 4) \o SubSeq(d, 6, 7) \o SubSeq(d, 9, 10))

\* C26: in AWAITING_DATE each of today, tomorrow and a weekday name is stored
\* as an ISO date and the state becomes AWAITING_TIME; any other input leaves
\* the state AWAITING_DATE and the draft unchanged.
C26_DatePhraseAccepted ==
    (/\ last.op \in {"bot_message", "wa_message"}
     /\ last.pre_st = "AWAITING_DATE") =>
        IF last.text \in C26_DatePhrases
        THEN /\ user_states[last.chat] = "AWAITING_TIME"
             /\ C26_IsIsoDate(appointment_data[last.chat]["date"])
        ELSE /\ user_states[last.chat] = "AWAITING_DATE"
             /\ appointment_data[last.chat] = last.pre_ad


\* C27: in the store of conversation_states and in the fallback store of
\* MessageHandler, set_appointment_data merges the given keys into the stored
\* draft and keeps the others, and an assignment to a mapping returned by
\* get_appointment_data does not change the stored draft.
C27_ShallowMergeAndCopy ==
    /\ call.fn = "set_appointment_data" =>
           StoredDraft(call.store, call.chat) = DictUpdate(call.pre, call.arg)
    /\ call.fn = "mutate" => StoredDraft(call.store, call.chat) = call.pre


\* the last n entries of a sequence, all of it when it is shorter
LastEntries(q, n) == IF Len(q) > n THEN SubSeq(q, Len(q) - n + 1, Len(q)) ELSE q

\* C28: the history of a chat has at most ten entries, and they are, in
\* order, the most recent of the entries appended since it was cleared.
C28_HistoryIsLastTen ==
    \A c \in Chats :
        /\ Len(conversation_history[c]) <= 10
        /\ conversation_history[c] = LastEntries(appended[c], 10)

\* more than ten entries were appended and the oldest ones are gone
C28_HistoryOverflowed ==
    /\ Len(appended["c1"]) = 12
    /\ Len(conversation_history["c1"]) = 10
    /\ conversation_history["c1"][1].message = "03"
    /\ conversation_history["c1"][10].message = "12"


\* state and draft of c after ConversationHandler.process_message handled a
\* and then b, starting where the two updates arrived
C29_Serial(c, a, b) ==
    LET e0 == [Eff(c) EXCEPT !.st = threads.base.st, !.ad = threads.base.ad]
        e1 == Caught(CH_process_message(e0, FALSE, a, now, TRUE))
        e2 == CH_process_message([e1 EXCEPT !.out = <<>>, !.path = <<>>],
                                 FALSE, b, now, TRUE)
    IN [st |-> e2.st, ad |-> e2.ad]

C29_SerialOutcomes ==
    {C29_Serial("c1", threads.of["t1"].text, threads.of["t2"].text),
     C29_Serial("c1", threads.of["t2"].text, threads.of["t1"].text)}

C29_Outcome == [st |-> user_states["c1"], ad |-> appointment_data["c1"]]

C29_BothDone == \A t \in ThreadIds : threads.of[t].pc = "done"

C31_ConfirmationHasServiceAndPrice ==
    (/\ last.op \in {"mh_message", "mh_whatsapp", "mh_callback"}
     /\ user_states[last.chat] = MH_AWAITING_CONFIRMATION) =>
        /\ appointment_data[last.chat]["service"] # Absent
        /\ appointment_data[last.chat]["price"] # Absent


\* C32: after clear_appointment_data the draft is empty, the state is
\* unchanged, last_topic is absent from the stored context, every other
\* context key is kept, and is_user_viewing_services is false unless the
\* state is VIEWING_SERVICES.
C32_ClearAppointmentData ==
    last.op = "clear_appointment_data" =>
        LET c == last.chat IN
        /\ appointment_data[c] = EmptyDraft
        /\ user_states[c] = last.pre_st
        /\ conversation_context[c].last_topic = Absent
        /\ conversation_context[c] =
               [last.pre_cc EXCEPT !.last_topic = Absent]
        /\ is_user_viewing_services(Eff(c)) => user_states[c] = "VIEWING_SERVICES"

\* C33: after clear_payment_data, get_payment_data returns an empty mapping
\* and the other draft fields are unchanged; after set_payment_data,
\* get_payment_data returns the data that was set.
C33_PaymentData ==
    LET c == last.chat IN
    /\ last.op = "clear_payment_data" =>
           /\ get_payment_data(Eff(c)) = EmptyPayment
           /\ \A k \in DraftKeys \ {"payment_data"} :
                  appointment_data[c][k] = last.pre_ad[k]
    /\ last.op = "set_payment_data" => get_payment_data(Eff(c)) = last.text


\* C34: a text message handled by WorkingBookingBot.handle_message adds
\* exactly one entry, the message, to the history of its chat.
C34_MessageRecordedOnce ==
    [][(last'.op = "bot_message" /\ ~StartsWith(last'.text, "/")) =>
          conversation_history'[last'.chat] =
              LastEntries(Append(conversation_history[last'.chat],
                                 [role |-> "user", message |-> last'.text]),
                          HistoryLimit)]_vars


\* C35: '/book' without arguments from a Telegram user in IDLE sends the
\* booking prompt and sets the state to APPOINTMENT_IN_PROGRESS.
C35_BookCommandStartsBooking ==
    (/\ last.op = "mh_message"
     /\ WasIdle
     /\ Strip(last.text) = "/book") =>
        /\ "booking_prompt" \in Range(last.out)
        /\ user_states[last.chat] \in
               {"APPOINTMENT_IN_PROGRESS", MH_APPOINTMENT_IN_PROGRESS}


\* C36: in the polling loop the updates handed to handle_update are, in the
\* same order, the updates get_updates returned, none of them twice; back at
\* the top of the loop every returned update has been handled, whether or not
\* an earlier one of its batch raised; and the offset of the next poll is the
\* id of the last handled update plus one
C36_UpdatesHandledOnceInOrder ==
    LET returned == poller.returned
        handled == poller.handled
    IN /\ Len(handled) <= Len(returned)
       /\ \A i \in 1..Len(handled) :
              handled[i].update_id = returned[i].update_id
       /\ \A i, j \in 1..Len(returned) :
              i < j => returned[i].update_id < returned[j].update_id
       /\ poller.pc = "poll" => Len(handled) = Len(returned)
       /\ poller.pc = "batch" =>
              poller.updates[poller.pos] = returned[Len(handled) + 1]
       /\ poller.offset = IF handled = <<>> THEN <<>>
                          ELSE <<handled[Len(handled)].update_id + 1>>

\* an update whose handling raised is followed by the next update of its batch
C36_BatchContinuedAfterException ==
    \E i \in 1..(Len(poller.handled) - 1) :
        /\ poller.handled[i].exc # ""
        /\ poller.handled[i + 1].batch = poller.handled[i].batch


\* C37: error_count never exceeds max_errors, the polling loop has ended once
\* it reaches max_errors, and the loop has also ended once get_updates has
\* failed on max_errors polls in a row
C37_ErrorsStopTheLoop ==
    /\ poller.error_count <= max_errors
    /\ poller.error_count >= max_errors => poller.pc = "off"
    /\ poller.failed_polls >= max_errors => poller.pc = "off"


\* C38: main starts the bot at most max_retries times; it sleeps before a new
\* start exactly after a crash of an attempt before the last, it re-raises
\* exactly after a crash of the last attempt, and after a run that returned
\* normally the bot is not started again
C38_RetriesOnlyAfterCrash ==
    LET after == runner.after IN
    /\ runner.starts <= max_retries
    /\ runner.pc = "sleep" =>
           after[Len(after)] = "crashed" /\ Len(after) < max_retries
    /\ runner.pc = "raised" =>
           after[Len(after)] = "crashed" /\ Len(after) = max_retries
    /\ \A i \in 1..Len(after) : after[i] = "returned" => runner.starts = i

=============================================================================
